---- MODULE Spec2Model ----
(***************************************************************************)
(* A model of the B-tree of trees/btree/btree.go: the tree object (Root,   *)
(* size, m), its nodes as a pool of records addressed by handles (Parent,  *)
(* Entries, Children), and the operations Put, Get, Remove, Clear, Keys    *)
(* and Values, translated function by function.                            *)
(* Go slices are 0-based: every index below is the Go index, and Slice,    *)
(* At, InsertAt, ReplaceAt and RemoveAt convert to TLA+ sequences.         *)
(***************************************************************************)
EXTENDS Integers, Sequences, FiniteSets, TLC

\* ---- bounds of the model ----
MaxKey == 4        \* keys 1..MaxKey in Spec
MaxVal == 2        \* values 1..MaxVal in Spec
MaxOrder == 4      \* orders MinOrder..MaxOrder
DeepKeys == 11     \* keys 1..DeepKeys in SpecDeep, order MinOrder
WideKeys == 9      \* keys 1..WideKeys in SpecDeep, the other orders
MaxBelow == 5      \* SpecNew also tries the MaxBelow orders below MinOrder
JsonPairs == 3     \* SpecJSON: at most JsonPairs pairs in an encoded form,
KeyStep == 6       \*   their keys among KeyStep, 2*KeyStep, ...
MaxWalk == 7       \* SpecCursor: at most MaxWalk calls of Next and Prev
MaxLinkedKey == 2
TallKeys == 7  \* SpecLinked: keys 0..MaxLinkedKey

\* ---- program constants ----
MinOrder == 3      \* NewWith: order < 3 panics
Nil == 0           \* the nil *Node
ZeroValue == 0     \* *new(TKey), *new(TValue) for int

VARIABLES
    m,        \* Tree.m, the order
    Root,     \* Tree.Root, a node handle or Nil
    size,     \* Tree.size
    nodes,    \* the live Node objects: handle -> [Parent, Entries, Children]
    pc,       \* "ready" between calls, "panic" once a call has panicked
    err,      \* the error the last FromJSON returned ("nil" for none)
    orderArg, \* history: the order NewWith was called with
    iterator, \* a cursor: [position, node]
    treeMap,  \* a treemap.Map: [tree]
    linkedMap, \* a linkedhashmap.Map: [table, ordering]
    hashBidi, \* a hashbidimap.Map: [forwardMap, inverseMap]
    treeBidi, \* a treebidimap.Map: [forwardMap, inverseMap]
    model,    \* history: the finite map the calls so far describe
    lastOp,   \* history: the last call and what it met (see Met)
    walk      \* history: the calls made on the cursor, each with its answer

vars == <<m, Root, size, nodes, pc, err, orderArg, iterator, treeMap, linkedMap,
          hashBidi, treeBidi, model, lastOp, walk>>

\* ---- Go slice operations ----
Slice(s, lo, hi) == SubSeq(s, lo + 1, hi)
At(s, i) == s[i + 1]
ReplaceAt(s, i, x) == [s EXCEPT ![i + 1] = x]
InsertAt(s, i, x) == Slice(s, 0, i) \o <<x>> \o Slice(s, i, Len(s))
RemoveAt(s, i) == Slice(s, 0, i) \o Slice(s, i + 1, Len(s))

\* ---- the types ----
Entry(key, value) == [Key |-> key, Value |-> value]
Node(parent, entries, children) ==
    [Parent |-> parent, Entries |-> entries, Children |-> children]
Tree == [Root |-> Root, size |-> size, nodes |-> nodes]

\* utils.IntComparator: negative, zero or positive
Comparator(a, b) == IF a < b THEN -1 ELSE IF a > b THEN 1 ELSE 0

\* a handle for a freshly allocated node
NewNode(h) == CHOOSE i \in 1..(Cardinality(DOMAIN h) + 1) :
                  /\ i \notin DOMAIN h
                  /\ \A j \in 1..(i - 1) : j \in DOMAIN h

\* setParent(nodes, parent)
setParent(h, children, parent) ==
    [x \in DOMAIN h |->
        IF \E i \in 1..Len(children) : children[i] = x
        THEN [h[x] EXCEPT !.Parent = parent]
        ELSE h[x]]

\* ---- predicates and sizes ----
Empty(T) == T.size = 0
Size(T) == T.size
isLeaf(node) == Len(node.Children) = 0
maxChildren == m
minChildren == (m + 1) \div 2
maxEntries == maxChildren - 1
\* mutant of minEntries: the least number of children is taken for it
minEntriesOfChildren == minChildren
minEntries == minChildren - 1
\* mutant of middle: the left half is favoured
middleFavorsLeft == m \div 2
middle == (m - 1) \div 2
\* mutant of shouldSplit: a node is split one entry later
shouldSplitLate(node) == Len(node.Entries) > maxEntries + 1
shouldSplit(node) == Len(node.Entries) > maxEntries

\* ---- search ----
RECURSIVE searchLoop(_, _, _, _)
searchLoop(entries, key, low, high) ==
    IF low <= high
    THEN LET mid == (high + low) \div 2
             compare == Comparator(key, At(entries, mid).Key)
         IN  IF compare > 0 THEN searchLoop(entries, key, mid + 1, high)
             ELSE IF compare < 0 THEN searchLoop(entries, key, low, mid - 1)
             ELSE [index |-> mid, found |-> TRUE]
    ELSE [index |-> low, found |-> FALSE]

search(node, key) == searchLoop(node.Entries, key, 0, Len(node.Entries) - 1)

RECURSIVE searchDescend(_, _, _)
searchDescend(h, n, key) ==
    LET s == search(h[n], key)
    IN  IF s.found THEN [node |-> n, index |-> s.index, found |-> TRUE]
        ELSE IF isLeaf(h[n]) THEN [node |-> Nil, index |-> -1, found |-> FALSE]
        ELSE searchDescend(h, At(h[n].Children, s.index), key)

searchRecursively(T, startNode, key) ==
    IF Empty(T) THEN [node |-> Nil, index |-> -1, found |-> FALSE]
    ELSE searchDescend(T.nodes, startNode, key)

Get(T, key) ==
    LET r == searchRecursively(T, T.Root, key)
    IN  IF r.found
        THEN [value |-> At(T.nodes[r.node].Entries, r.index).Value, found |-> TRUE]
        ELSE [value |-> ZeroValue, found |-> FALSE]

\* GetNode(key): the node that holds key, Nil when none does
GetNode(T, key) == searchRecursively(T, T.Root, key).node

\* ---- insertion ----
\* splitRoot: the root's halves become the two children of a new root
splitRoot(T) ==
    LET h == T.nodes
        root == h[T.Root]
        l == NewNode(h)
        h0 == (l :> Node(Nil, <<>>, <<>>)) @@ h
        r == NewNode(h0)
        nr == NewNode((r :> Node(Nil, <<>>, <<>>)) @@ h0)
        left == Node(nr, Slice(root.Entries, 0, middle),
                     IF isLeaf(root) THEN <<>>
                     ELSE Slice(root.Children, 0, middle + 1))
        right == Node(nr, Slice(root.Entries, middle + 1, Len(root.Entries)),
                      IF isLeaf(root) THEN <<>>
                      ELSE Slice(root.Children, middle + 1, Len(root.Children)))
        newRoot == Node(Nil, <<At(root.Entries, middle)>>, <<l, r>>)
        h1 == (l :> left) @@ (r :> right) @@ (nr :> newRoot) @@ h
        h2 == setParent(setParent(h1, left.Children, l), right.Children, r)
    IN  [T EXCEPT !.nodes = h2, !.Root = nr]

RECURSIVE split(_, _)

\* mutant of splitNonRoot: the left half is not given its children
splitNonRootLeftChildless(T, n) ==
    LET h == T.nodes
        node == h[n]
        parent == node.Parent
        l == NewNode(h)
        r == NewNode((l :> Node(Nil, <<>>, <<>>)) @@ h)
        left == Node(parent, Slice(node.Entries, 0, middle), <<>>)
        right == Node(parent, Slice(node.Entries, middle + 1, Len(node.Entries)),
                      IF isLeaf(node) THEN <<>>
                      ELSE Slice(node.Children, middle + 1, Len(node.Children)))
        h1 == setParent((l :> left) @@ (r :> right) @@ h, right.Children, r)
        insertPosition == search(h1[parent], At(node.Entries, middle).Key).index
        pEntries == InsertAt(h1[parent].Entries, insertPosition,
                             At(node.Entries, middle))
        pChildren == InsertAt(ReplaceAt(h1[parent].Children, insertPosition, l),
                              insertPosition + 1, r)
        h2 == [h1 EXCEPT ![parent].Entries = pEntries,
                         ![parent].Children = pChildren]
    IN  split([T EXCEPT !.nodes = h2], parent)

\* mutant of splitNonRoot: the parent that receives the middle entry is
\* not split in turn
splitNonRootStops(T, n) ==
    LET h == T.nodes
        node == h[n]
        parent == node.Parent
        l == NewNode(h)
        r == NewNode((l :> Node(Nil, <<>>, <<>>)) @@ h)
        left == Node(parent, Slice(node.Entries, 0, middle),
                     IF isLeaf(node) THEN <<>>
                     ELSE Slice(node.Children, 0, middle + 1))
        right == Node(parent, Slice(node.Entries, middle + 1, Len(node.Entries)),
                      IF isLeaf(node) THEN <<>>
                      ELSE Slice(node.Children, middle + 1, Len(node.Children)))
        h1 == setParent(setParent((l :> left) @@ (r :> right) @@ h,
                                  left.Children, l), right.Children, r)
        insertPosition == search(h1[parent], At(node.Entries, middle).Key).index
        pEntries == InsertAt(h1[parent].Entries, insertPosition,
                             At(node.Entries, middle))
        pChildren == InsertAt(ReplaceAt(h1[parent].Children, insertPosition, l),
                              insertPosition + 1, r)
        h2 == [h1 EXCEPT ![parent].Entries = pEntries,
                         ![parent].Children = pChildren]
    IN  [T EXCEPT !.nodes = h2]

\* splitNonRoot: the halves replace the node under its parent, the middle
\* entry moves into the parent, and the parent is split in turn
splitNonRoot(T, n) ==
    LET h == T.nodes
        node == h[n]
        parent == node.Parent
        l == NewNode(h)
        r == NewNode((l :> Node(Nil, <<>>, <<>>)) @@ h)
        left == Node(parent, Slice(node.Entries, 0, middle),
                     IF isLeaf(node) THEN <<>>
                     ELSE Slice(node.Children, 0, middle + 1))
        right == Node(parent, Slice(node.Entries, middle + 1, Len(node.Entries)),
                      IF isLeaf(node) THEN <<>>
                      ELSE Slice(node.Children, middle + 1, Len(node.Children)))
        h1 == setParent(setParent((l :> left) @@ (r :> right) @@ h,
                                  left.Children, l), right.Children, r)
        insertPosition == search(h1[parent], At(node.Entries, middle).Key).index
        pEntries == InsertAt(h1[parent].Entries, insertPosition,
                             At(node.Entries, middle))
        pChildren == InsertAt(ReplaceAt(h1[parent].Children, insertPosition, l),
                              insertPosition + 1, r)
        h2 == [h1 EXCEPT ![parent].Entries = pEntries,
                         ![parent].Children = pChildren]
    IN  split([T EXCEPT !.nodes = h2], parent)

\* mutant of split: an overflowing root is left as it is
splitSparesRoot(T, n) ==
    IF ~shouldSplit(T.nodes[n]) THEN T
    ELSE IF n = T.Root THEN T
    ELSE splitNonRoot(T, n)

split(T, n) ==
    IF ~shouldSplit(T.nodes[n]) THEN T
    ELSE IF n = T.Root THEN splitRoot(T)
    ELSE splitNonRoot(T, n)

\* mutant of insertIntoLeaf: the new entry goes to the end of the leaf
insertIntoLeafAtEnd(T, n, entry) ==
    LET node == T.nodes[n]
        s == search(node, entry.Key)
    IN  IF s.found
        THEN [T |-> [T EXCEPT !.nodes[n].Entries = ReplaceAt(node.Entries, s.index, entry)],
              inserted |-> FALSE]
        ELSE [T |-> split([T EXCEPT !.nodes[n].Entries = Append(node.Entries, entry)], n),
              inserted |-> TRUE]

\* mutant of insertIntoLeaf: an overwrite is reported as an insertion
insertIntoLeafCountsOverwrite(T, n, entry) ==
    LET node == T.nodes[n]
        s == search(node, entry.Key)
    IN  IF s.found
        THEN [T |-> [T EXCEPT !.nodes[n].Entries = ReplaceAt(node.Entries, s.index, entry)],
              inserted |-> TRUE]
        ELSE [T |-> split([T EXCEPT !.nodes[n].Entries =
                                        InsertAt(node.Entries, s.index, entry)], n),
              inserted |-> TRUE]

insertIntoLeaf(T, n, entry) ==
    LET node == T.nodes[n]
        s == search(node, entry.Key)
    IN  IF s.found
        THEN [T |-> [T EXCEPT !.nodes[n].Entries = ReplaceAt(node.Entries, s.index, entry)],
              inserted |-> FALSE]
        ELSE [T |-> split([T EXCEPT !.nodes[n].Entries =
                                        InsertAt(node.Entries, s.index, entry)], n),
              inserted |-> TRUE]

RECURSIVE insert(_, _, _)

\* mutant of insertIntoInternal: a key found in an internal node keeps its old entry
insertIntoInternalKeepsEntry(T, n, entry) ==
    LET node == T.nodes[n]
        s == search(node, entry.Key)
    IN  IF s.found
        THEN [T |-> T, inserted |-> FALSE]
        ELSE insert(T, At(node.Children, s.index), entry)

insertIntoInternal(T, n, entry) ==
    LET node == T.nodes[n]
        s == search(node, entry.Key)
    IN  IF s.found
        THEN [T |-> [T EXCEPT !.nodes[n].Entries = ReplaceAt(node.Entries, s.index, entry)],
              inserted |-> FALSE]
        ELSE insert(T, At(node.Children, s.index), entry)

insert(T, n, entry) ==
    IF isLeaf(T.nodes[n]) THEN insertIntoLeaf(T, n, entry)
    ELSE insertIntoInternal(T, n, entry)

Put(T, key, value) ==
    LET entry == Entry(key, value)
    IN  IF T.Root = Nil
        THEN LET r == NewNode(T.nodes)
             IN  [Root |-> r, size |-> T.size + 1,
                  nodes |-> (r :> Node(Nil, <<entry>>, <<>>)) @@ T.nodes]
        ELSE LET res == insert(T, T.Root, entry)
             IN  IF res.inserted THEN [res.T EXCEPT !.size = @ + 1] ELSE res.T

\* ---- deletion ----
RECURSIVE right(_, _)
right(T, n) ==
    IF Empty(T) THEN Nil
    ELSE IF isLeaf(T.nodes[n]) THEN n
    ELSE right(T, At(T.nodes[n].Children, Len(T.nodes[n].Children) - 1))

RECURSIVE left(_, _)
left(T, n) ==
    IF Empty(T) THEN Nil
    ELSE IF isLeaf(T.nodes[n]) THEN n
    ELSE left(T, At(T.nodes[n].Children, 0))

\* Tree.Left, Tree.Right: the left-most, right-most node, Nil when empty
TreeLeft(T) == left(T, T.Root)
TreeRight(T) == right(T, T.Root)

\* LeftKey, LeftValue: of the first entry of Left()
LeftKey(T) ==
    IF TreeLeft(T) # Nil THEN At(T.nodes[TreeLeft(T)].Entries, 0).Key
    ELSE ZeroValue
LeftValue(T) ==
    IF TreeLeft(T) # Nil THEN At(T.nodes[TreeLeft(T)].Entries, 0).Value
    ELSE ZeroValue

\* mutant of RightKey: the first entry of Right() is read
RightKeyOfFirstEntry(T) ==
    IF TreeRight(T) # Nil THEN At(T.nodes[TreeRight(T)].Entries, 0).Key
    ELSE ZeroValue

\* RightKey, RightValue: of the last entry of Right()
RightKey(T) ==
    IF TreeRight(T) # Nil
    THEN At(T.nodes[TreeRight(T)].Entries, Len(T.nodes[TreeRight(T)].Entries) - 1).Key
    ELSE ZeroValue
RightValue(T) ==
    IF TreeRight(T) # Nil
    THEN At(T.nodes[TreeRight(T)].Entries, Len(T.nodes[TreeRight(T)].Entries) - 1).Value
    ELSE ZeroValue

\* mutant of leftSibling: no left sibling is ever found
leftSiblingNever(h, n, key) == [node |-> Nil, index |-> -1]

\* leftSibling(node, key): the sibling and its child index in the parent
leftSibling(h, n, key) ==
    IF h[n].Parent # Nil
    THEN LET p == h[h[n].Parent]
             index == search(p, key).index - 1
         IN  IF index >= 0 /\ index < Len(p.Children)
             THEN [node |-> At(p.Children, index), index |-> index]
             ELSE [node |-> Nil, index |-> -1]
    ELSE [node |-> Nil, index |-> -1]

\* mutant of rightSibling: no right sibling is ever found
rightSiblingNever(h, n, key) == [node |-> Nil, index |-> -1]

rightSibling(h, n, key) ==
    IF h[n].Parent # Nil
    THEN LET p == h[h[n].Parent]
             index == search(p, key).index + 1
         IN  IF index < Len(p.Children)
             THEN [node |-> At(p.Children, index), index |-> index]
             ELSE [node |-> Nil, index |-> -1]
    ELSE [node |-> Nil, index |-> -1]

deleteEntry(h, n, index) ==
    [h EXCEPT ![n].Entries = RemoveAt(@, index)]

\* mutant of deleteChild: the last child is never deleted
deleteChildNotLast(h, n, index) ==
    IF index >= Len(h[n].Children) - 1 THEN h
    ELSE [h EXCEPT ![n].Children = RemoveAt(@, index)]

deleteChild(h, n, index) ==
    IF index >= Len(h[n].Children) THEN h
    ELSE [h EXCEPT ![n].Children = RemoveAt(@, index)]

prependChildren(h, fromNode, toNode) ==
    setParent([h EXCEPT ![toNode].Children = h[fromNode].Children \o @],
              h[fromNode].Children, toNode)

\* mutant of appendChildren: the moved children keep their parent
appendChildrenKeepsParent(h, fromNode, toNode) ==
    [h EXCEPT ![toNode].Children = @ \o h[fromNode].Children]

appendChildren(h, fromNode, toNode) ==
    setParent([h EXCEPT ![toNode].Children = @ \o h[fromNode].Children],
              h[fromNode].Children, toNode)

\* mutant of borrowLeft: the parent receives the sibling's first entry
borrowLeftPromotesFirst(h, n, ls) ==
    LET p == h[n].Parent
        sib == ls.node
        h1 == [h EXCEPT ![n].Entries = <<At(h[p].Entries, ls.index)>> \o @]
        h2 == [h1 EXCEPT ![p].Entries = ReplaceAt(@, ls.index, At(h1[sib].Entries, 0))]
        h3 == deleteEntry(h2, sib, Len(h2[sib].Entries) - 1)
    IN  IF ~isLeaf(h3[sib])
        THEN LET c == At(h3[sib].Children, Len(h3[sib].Children) - 1)
                 h4 == [h3 EXCEPT ![c].Parent = n]
                 h5 == [h4 EXCEPT ![n].Children = <<c>> \o @]
             IN  deleteChild(h5, sib, Len(h5[sib].Children) - 1)
        ELSE h3

\* rebalance, "rotate right": borrow the left sibling's last entry
borrowLeft(h, n, ls) ==
    LET p == h[n].Parent
        sib == ls.node
        h1 == [h EXCEPT ![n].Entries = <<At(h[p].Entries, ls.index)>> \o @]
        h2 == [h1 EXCEPT ![p].Entries =
                  ReplaceAt(@, ls.index, At(h1[sib].Entries, Len(h1[sib].Entries) - 1))]
        h3 == deleteEntry(h2, sib, Len(h2[sib].Entries) - 1)
    IN  IF ~isLeaf(h3[sib])
        THEN LET c == At(h3[sib].Children, Len(h3[sib].Children) - 1)
                 h4 == [h3 EXCEPT ![c].Parent = n]
                 h5 == [h4 EXCEPT ![n].Children = <<c>> \o @]
             IN  deleteChild(h5, sib, Len(h5[sib].Children) - 1)
        ELSE h3

\* rebalance, "rotate left": borrow the right sibling's first entry
borrowRight(h, n, rs) ==
    LET p == h[n].Parent
        sib == rs.node
        h1 == [h EXCEPT ![n].Entries = Append(@, At(h[p].Entries, rs.index - 1))]
        h2 == [h1 EXCEPT ![p].Entries =
                  ReplaceAt(@, rs.index - 1, At(h1[sib].Entries, 0))]
        h3 == deleteEntry(h2, sib, 0)
    IN  IF ~isLeaf(h3[sib])
        THEN LET c == At(h3[sib].Children, 0)
                 h4 == [h3 EXCEPT ![c].Parent = n]
                 h5 == [h4 EXCEPT ![n].Children = Append(@, c)]
             IN  deleteChild(h5, sib, 0)
        ELSE h3

\* mutant of mergeRight: the separator also stays in the parent
mergeRightKeepsSeparator(h, n, rs) ==
    LET p == h[n].Parent
        sep == At(h[p].Entries, rs.index - 1)
        h1 == [h EXCEPT ![n].Entries = Append(@, sep) \o h[rs.node].Entries]
        h3 == appendChildren(h1, At(h1[p].Children, rs.index), n)
    IN  [nodes |-> deleteChild(h3, p, rs.index), deletedKey |-> sep.Key]

\* rebalance, merge with the right sibling; also yields the new deletedKey
mergeRight(h, n, rs) ==
    LET p == h[n].Parent
        sep == At(h[p].Entries, rs.index - 1)
        h1 == [h EXCEPT ![n].Entries = Append(@, sep) \o h[rs.node].Entries]
        h2 == deleteEntry(h1, p, rs.index - 1)
        h3 == appendChildren(h2, At(h2[p].Children, rs.index), n)
    IN  [nodes |-> deleteChild(h3, p, rs.index), deletedKey |-> sep.Key]

\* rebalance, merge with the left sibling; also yields the new deletedKey
mergeLeft(h, n, ls) ==
    LET p == h[n].Parent
        sep == At(h[p].Entries, ls.index)
        h1 == [h EXCEPT ![n].Entries = Append(h[ls.node].Entries, sep) \o @]
        h2 == deleteEntry(h1, p, ls.index)
        h3 == prependChildren(h2, At(h2[p].Children, ls.index), n)
    IN  [nodes |-> deleteChild(h3, p, ls.index), deletedKey |-> sep.Key]

RECURSIVE rebalance(_, _, _)

\* mutant of rebalance: the merged node that becomes the root keeps its
\* parent reference
rebalanceKeepsParent(T, n, deletedKey) ==
    IF n = Nil \/ Len(T.nodes[n].Entries) >= minEntries THEN T
    ELSE
    LET h == T.nodes
        ls == leftSibling(h, n, deletedKey)
        rs == rightSibling(h, n, deletedKey)
    IN  IF ls.node # Nil /\ Len(h[ls.node].Entries) > minEntries
        THEN [T EXCEPT !.nodes = borrowLeft(h, n, ls)]
        ELSE IF rs.node # Nil /\ Len(h[rs.node].Entries) > minEntries
        THEN [T EXCEPT !.nodes = borrowRight(h, n, rs)]
        ELSE
        LET mg == IF rs.node # Nil THEN mergeRight(h, n, rs)
                  ELSE IF ls.node # Nil THEN mergeLeft(h, n, ls)
                  ELSE [nodes |-> h, deletedKey |-> deletedKey]
            h1 == mg.nodes
        IN  IF h1[n].Parent = T.Root /\ Len(h1[T.Root].Entries) = 0
            THEN [T EXCEPT !.nodes = h1, !.Root = n]
            ELSE rebalance([T EXCEPT !.nodes = h1], h1[n].Parent, mg.deletedKey)

rebalance(T, n, deletedKey) ==
    IF n = Nil \/ Len(T.nodes[n].Entries) >= minEntries THEN T
    ELSE
    LET h == T.nodes
        ls == leftSibling(h, n, deletedKey)
        rs == rightSibling(h, n, deletedKey)
    IN  IF ls.node # Nil /\ Len(h[ls.node].Entries) > minEntries
        THEN [T EXCEPT !.nodes = borrowLeft(h, n, ls)]
        ELSE IF rs.node # Nil /\ Len(h[rs.node].Entries) > minEntries
        THEN [T EXCEPT !.nodes = borrowRight(h, n, rs)]
        ELSE
        LET mg == IF rs.node # Nil THEN mergeRight(h, n, rs)
                  ELSE IF ls.node # Nil THEN mergeLeft(h, n, ls)
                  ELSE [nodes |-> h, deletedKey |-> deletedKey]
            h1 == mg.nodes
        IN  IF h1[n].Parent = T.Root /\ Len(h1[T.Root].Entries) = 0
            THEN [T EXCEPT !.nodes = [h1 EXCEPT ![n].Parent = Nil], !.Root = n]
            ELSE rebalance([T EXCEPT !.nodes = h1], h1[n].Parent, mg.deletedKey)

\* mutant of dropEmptyRoot: a root without entries stays
keepEmptyRoot(T) == T

\* delete, after a leaf lost its entry: a root left without entries is dropped
dropEmptyRoot(T) ==
    IF Len(T.nodes[T.Root].Entries) = 0 THEN [T EXCEPT !.Root = Nil] ELSE T

\* mutant of delete: the first entry of the largest left node is promoted
deleteTakesFirst(T, n, index) ==
    IF isLeaf(T.nodes[n])
    THEN LET deletedKey == At(T.nodes[n].Entries, index).Key
             T1 == [T EXCEPT !.nodes = deleteEntry(T.nodes, n, index)]
             T2 == rebalance(T1, n, deletedKey)
         IN  dropEmptyRoot(T2)
    ELSE LET leftLargestNode == right(T, At(T.nodes[n].Children, index))
             leftLargestEntryIndex == 0
             pred == At(T.nodes[leftLargestNode].Entries, leftLargestEntryIndex)
             h1 == [T.nodes EXCEPT ![n].Entries = ReplaceAt(@, index, pred)]
             T1 == [T EXCEPT !.nodes =
                        deleteEntry(h1, leftLargestNode, leftLargestEntryIndex)]
         IN  rebalance(T1, leftLargestNode, pred.Key)

\* mutant of delete: the predecessor also stays in its leaf
deleteKeepsPredecessor(T, n, index) ==
    IF isLeaf(T.nodes[n])
    THEN LET deletedKey == At(T.nodes[n].Entries, index).Key
             T1 == [T EXCEPT !.nodes = deleteEntry(T.nodes, n, index)]
             T2 == rebalance(T1, n, deletedKey)
         IN  dropEmptyRoot(T2)
    ELSE LET leftLargestNode == right(T, At(T.nodes[n].Children, index))
             leftLargestEntryIndex == Len(T.nodes[leftLargestNode].Entries) - 1
             pred == At(T.nodes[leftLargestNode].Entries, leftLargestEntryIndex)
             h1 == [T.nodes EXCEPT ![n].Entries = ReplaceAt(@, index, pred)]
         IN  rebalance([T EXCEPT !.nodes = h1], leftLargestNode, pred.Key)

\* delete(node, index)
delete(T, n, index) ==
    IF isLeaf(T.nodes[n])
    THEN LET deletedKey == At(T.nodes[n].Entries, index).Key
             T1 == [T EXCEPT !.nodes = deleteEntry(T.nodes, n, index)]
             T2 == rebalance(T1, n, deletedKey)
         IN  dropEmptyRoot(T2)
    ELSE LET leftLargestNode == right(T, At(T.nodes[n].Children, index))
             leftLargestEntryIndex == Len(T.nodes[leftLargestNode].Entries) - 1
             pred == At(T.nodes[leftLargestNode].Entries, leftLargestEntryIndex)
             h1 == [T.nodes EXCEPT ![n].Entries = ReplaceAt(@, index, pred)]
             T1 == [T EXCEPT !.nodes =
                        deleteEntry(h1, leftLargestNode, leftLargestEntryIndex)]
         IN  rebalance(T1, leftLargestNode, pred.Key)

\* mutant of Remove: size stays as it was
RemoveKeepsSize(T, key) ==
    LET r == searchRecursively(T, T.Root, key)
    IN  IF r.found
        THEN delete(T, r.node, r.index)
        ELSE T

\* mutant of Remove: size shrinks on every call
RemoveAlwaysCounts(T, key) ==
    LET r == searchRecursively(T, T.Root, key)
    IN  IF r.found
        THEN [delete(T, r.node, r.index) EXCEPT !.size = @ - 1]
        ELSE [T EXCEPT !.size = @ - 1]

Remove(T, key) ==
    LET r == searchRecursively(T, T.Root, key)
    IN  IF r.found
        THEN [delete(T, r.node, r.index) EXCEPT !.size = @ - 1]
        ELSE T

\* mutant of Clear: size is not reset
ClearKeepsSize(T) == [T EXCEPT !.Root = Nil]

Clear(T) == [T EXCEPT !.Root = Nil, !.size = 0]

\* ---- traversal and the snapshots ----
\* The sequence of entries a cursor yields from before-first by repeated
\* Next: the in-order interleaving of child subtrees and entries.
RECURSIVE IteratorSeq(_, _)
RECURSIVE IteratorFrom(_, _, _)
IteratorSeq(h, n) == IteratorFrom(h, n, 0)
IteratorFrom(h, n, e) ==
    IF e > Len(h[n].Entries) THEN <<>>
    ELSE (IF e < Len(h[n].Children) THEN IteratorSeq(h, At(h[n].Children, e))
          ELSE <<>>)
         \o (IF e < Len(h[n].Entries) THEN <<At(h[n].Entries, e)>> ELSE <<>>)
         \o IteratorFrom(h, n, e + 1)

Iterator(T) == IF T.Root = Nil THEN <<>> ELSE IteratorSeq(T.nodes, T.Root)

\* Keys: a slice of length size, filled while the cursor yields elements
\* (an element past the slice's end is an index-out-of-range panic)
Keys(T) ==
    LET it == Iterator(T)
    IN  [panic |-> Len(it) > T.size,
         keys |-> [i \in 1..T.size |->
                     IF i <= Len(it) THEN it[i].Key ELSE ZeroValue]]

Values(T) ==
    LET it == Iterator(T)
    IN  [panic |-> Len(it) > T.size,
         values |-> [i \in 1..T.size |->
                       IF i <= Len(it) THEN it[i].Value ELSE ZeroValue]]

\* mutant of height: the levels below the node are counted
RECURSIVE heightCountsEdges(_, _)
heightCountsEdges(h, n) ==
    IF n = Nil THEN 0
    ELSE IF Len(h[n].Children) = 0 THEN 0
    ELSE 1 + heightCountsEdges(h, At(h[n].Children, 0))

\* Node.height, from the root
RECURSIVE height(_, _)
height(h, n) ==
    IF n = Nil THEN 0
    ELSE IF Len(h[n].Children) = 0 THEN 1
    ELSE 1 + height(h, At(h[n].Children, 0))

Height(T) == height(T.nodes, T.Root)

\* Node.Size: one for the node, plus Size of each child
RECURSIVE NodeSize(_, _)
RECURSIVE NodeSizeChildren(_, _, _)
NodeSize(h, n) ==
    IF n = Nil THEN 0
    ELSE 1 + NodeSizeChildren(h, h[n].Children, 0)
NodeSizeChildren(h, children, i) ==
    IF i >= Len(children) THEN 0
    ELSE NodeSize(h, At(children, i)) + NodeSizeChildren(h, children, i + 1)

\* ---- object lifetime ----
\* the nodes a chain of Parent and Children references reaches from S
RECURSIVE Reach(_, _)
Reach(h, S) ==
    LET S1 == S \cup {x \in DOMAIN h :
                        \E y \in S \cap DOMAIN h :
                            \/ h[y].Parent = x
                            \/ \E i \in 1..Len(h[y].Children) : h[y].Children[i] = x}
    IN  IF S1 = S THEN S ELSE Reach(h, S1)

\* the tree's nodes in preorder
RECURSIVE Preorder(_, _)
RECURSIVE PreorderAll(_, _, _)
Preorder(h, n) == <<n>> \o PreorderAll(h, h[n].Children, 0)
PreorderAll(h, children, i) ==
    IF i >= Len(children) THEN <<>>
    ELSE Preorder(h, At(children, i)) \o PreorderAll(h, children, i + 1)

RECURSIVE Ascending(_)
Ascending(S) ==
    IF S = {} THEN <<>>
    ELSE LET x == CHOOSE y \in S : \A z \in S : y <= z
         IN  <<x>> \o Ascending(S \ {x})

\* Unreachable nodes are reclaimed, and the handles of the others are
\* renamed to their preorder rank (a node's address is not observable);
\* nodes the tree reaches only through a Parent reference come last.
Collect(T) ==
    LET h == T.nodes
        pre == IF T.Root = Nil THEN <<>> ELSE Preorder(h, T.Root)
        inTree == {pre[i] : i \in 1..Len(pre)}
        stale == {h[x].Parent : x \in inTree} \ (inTree \cup {Nil})
        ord == IF stale = {} THEN pre
               ELSE pre \o Ascending(Reach(h, stale) \ inTree)
        rank(x) == IF x = Nil THEN Nil
                   ELSE CHOOSE i \in 1..Len(ord) : ord[i] = x
    IN  [Root |-> rank(T.Root), size |-> T.size,
         nodes |-> [i \in 1..Len(ord) |->
                      Node(rank(h[ord[i]].Parent), h[ord[i]].Entries,
                           [j \in 1..Len(h[ord[i]].Children) |->
                               rank(h[ord[i]].Children[j])])]]

\* ---- the encoded form (maps.go, package btree) ----
\* A []byte or string is a sequence of one-character strings. The model's
\* characters, in byte order: the text uses no others.
Alphabet == <<"\"", ",", "0", "1", "2", "3", "4", "5", "6", "7", "8", "9",
              ":", "x", "{", "}">>
Code(c) == CHOOSE i \in 1..Len(Alphabet) : Alphabet[i] = c
Digits == <<"0", "1", "2", "3", "4", "5", "6", "7", "8", "9">>
IsDigit(c) == c \in {Digits[i] : i \in 1..Len(Digits)}
DigitValue(c) == (CHOOSE i \in 1..Len(Digits) : Digits[i] = c) - 1

\* strconv.FormatInt(n, 10), for n >= 0
RECURSIVE FormatInt(_)
FormatInt(n) ==
    IF n < 10 THEN <<Digits[n + 1]>>
    ELSE Append(FormatInt(n \div 10), Digits[(n % 10) + 1])

\* utils.ToString of an int key: its decimal form
utilsToString(key) == FormatInt(key)

\* strconv.ParseInt(s, 10, 64) of a text without sign: the digits' value,
\* an error for the empty text and for any other character
\* mutant of ParseDigits: the digits are added up
RECURSIVE ParseDigitsAddsUp(_, _, _)
ParseDigitsAddsUp(str, i, acc) ==
    IF i > Len(str) THEN acc
    ELSE ParseDigitsAddsUp(str, i + 1, acc + DigitValue(str[i]))

RECURSIVE ParseDigits(_, _, _)
ParseDigits(str, i, acc) ==
    IF i > Len(str) THEN acc
    ELSE ParseDigits(str, i + 1, 10 * acc + DigitValue(str[i]))

ParseInt(str) ==
    IF Len(str) > 0 /\ \A i \in 1..Len(str) : IsDigit(str[i])
    THEN [ok |-> TRUE, n |-> ParseDigits(str, 1, 0)]
    ELSE [ok |-> FALSE, n |-> 0]

\* bytewise order of two texts (sort.Strings, as json.Marshal sorts map keys)
RECURSIVE Less(_, _, _)
Less(a, b, i) ==
    IF i > Len(a) THEN i <= Len(b)
    ELSE IF i > Len(b) THEN FALSE
    ELSE IF a[i] = b[i] THEN Less(a, b, i + 1)
    ELSE Code(a[i]) < Code(b[i])

RECURSIVE Sorted(_)
Sorted(S) ==
    IF S = {} THEN <<>>
    ELSE LET x == CHOOSE y \in S : \A z \in S \ {y} : Less(y, z, 1)
         IN  <<x>> \o Sorted(S \ {x})

\* json.Marshal of a map[string]interface{} holding ints: an object with
\* the keys in sorted order, each value in decimal
RECURSIVE MarshalPairs(_, _, _)
MarshalPairs(elements, ks, i) ==
    IF i > Len(ks) THEN <<>>
    ELSE (IF i > 1 THEN <<",">> ELSE <<>>)
         \o <<"\"">> \o ks[i] \o <<"\"", ":">> \o FormatInt(elements[ks[i]])
         \o MarshalPairs(elements, ks, i + 1)

Marshal(elements) ==
    <<"{">> \o MarshalPairs(elements, Sorted(DOMAIN elements), 1) \o <<"}">>

\* json.Unmarshal, first pass (checkValid): the text must be one JSON value.
\* Each Scan operator yields the position after what it scans, 0 when the
\* text does not have that form. Values here are numbers, strings, objects.
RECURSIVE SkipToQuote(_, _)
SkipToQuote(d, j) ==
    IF j > Len(d) THEN 0
    ELSE IF d[j] = "\"" THEN j + 1
    ELSE SkipToQuote(d, j + 1)

ScanString(d, i) ==
    IF i <= Len(d) /\ d[i] = "\"" THEN SkipToQuote(d, i + 1) ELSE 0

RECURSIVE SkipDigits(_, _)
SkipDigits(d, i) == IF i <= Len(d) /\ IsDigit(d[i]) THEN SkipDigits(d, i + 1) ELSE i

ScanNumber(d, i) ==
    IF i > Len(d) \/ ~IsDigit(d[i]) THEN 0
    ELSE IF d[i] = "0" THEN i + 1
    ELSE SkipDigits(d, i)

RECURSIVE ScanValue(_, _)
RECURSIVE ScanMembers(_, _)
ScanObject(d, i) ==
    IF i + 1 > Len(d) \/ d[i] # "{" THEN 0
    ELSE IF d[i + 1] = "}" THEN i + 2
    ELSE ScanMembers(d, i + 1)

ScanValue(d, i) ==
    IF i > Len(d) THEN 0
    ELSE IF d[i] = "\"" THEN ScanString(d, i)
    ELSE IF d[i] = "{" THEN ScanObject(d, i)
    ELSE ScanNumber(d, i)

ScanMembers(d, i) ==
    LET j == ScanString(d, i)
        k == IF j = 0 \/ j > Len(d) \/ d[j] # ":" THEN 0 ELSE ScanValue(d, j + 1)
    IN  IF k = 0 \/ k > Len(d) THEN 0
        ELSE IF d[k] = "," THEN ScanMembers(d, k + 1)
        ELSE IF d[k] = "}" THEN k + 1
        ELSE 0

checkValid(d) == ScanValue(d, 1) = Len(d) + 1

\* json.Unmarshal, second pass, of a valid object: its members in the order
\* of the text, each as the key's text and the value's text
RECURSIVE Members(_, _)
Members(d, i) ==
    IF d[i] = "}" THEN <<>>
    ELSE LET j == ScanString(d, i)
             k == ScanValue(d, j + 1)
             member == [key |-> SubSeq(d, i + 1, j - 2), value |-> SubSeq(d, j + 1, k - 1)]
         IN  <<member>> \o (IF d[k] = "," THEN Members(d, k + 1) ELSE <<>>)

\* the members stored into a map[int]int: a later member replaces an
\* earlier one of the same key; a key or value that is no int is skipped
\* and reported
RECURSIVE Store(_, _, _)
Store(ms, i, acc) ==
    IF i > Len(ms) THEN acc
    ELSE LET key == ParseInt(ms[i].key)
             value == ParseInt(ms[i].value)
         IN  IF key.ok /\ value.ok
             THEN Store(ms, i + 1, [acc EXCEPT !.elements = (key.n :> value.n) @@ @])
             ELSE Store(ms, i + 1, [acc EXCEPT !.err = "UnmarshalTypeError"])

\* json.Unmarshal(data, &elements) with elements an empty map[int]int
Unmarshal(data) ==
    IF ~checkValid(data) THEN [err |-> "SyntaxError", elements |-> <<>>]
    ELSE IF data[1] # "{" THEN [err |-> "UnmarshalTypeError", elements |-> <<>>]
    ELSE Store(Members(data, 2), 1, [err |-> "nil", elements |-> <<>>])

\* ToJSON: the cursor's elements go into a map by the key's text, and the
\* map is marshalled
ToJSON(T) ==
    LET it == Iterator(T)
        elements == [str \in {utilsToString(it[i].Key) : i \in 1..Len(it)} |->
                        it[CHOOSE i \in 1..Len(it) :
                              /\ utilsToString(it[i].Key) = str
                              /\ \A j \in (i + 1)..Len(it) :
                                     utilsToString(it[j].Key) # str].Value]
    IN  Marshal(elements)

\* mutant of PutAll: the loop ends at a key smaller than the one before it
RECURSIVE PutAllStopsAtSmaller(_, _, _, _)
PutAllStopsAtSmaller(T, elements, ks, i) ==
    IF i > Len(ks) \/ (i > 1 /\ ks[i] < ks[i - 1]) THEN T
    ELSE PutAllStopsAtSmaller(Put(T, ks[i], elements[ks[i]]), elements, ks, i + 1)

\* the loop of FromJSON: range visits the map's keys in the order ks
RECURSIVE PutAll(_, _, _, _)
PutAll(T, elements, ks, i) ==
    IF i > Len(ks) THEN T
    ELSE PutAll(Put(T, ks[i], elements[ks[i]]), elements, ks, i + 1)

\* mutant of FromJSON: the tree is cleared before the text is decoded
FromJSONClearsFirst(T, data, ks) ==
    LET r == Unmarshal(data)
    IN  IF r.err = "nil"
        THEN [T |-> PutAll(Clear(T), r.elements, ks, 1), err |-> r.err]
        ELSE [T |-> Clear(T), err |-> r.err]

\* mutant of FromJSON: the pairs are put without clearing the tree
FromJSONKeepsEntries(T, data, ks) ==
    LET r == Unmarshal(data)
    IN  IF r.err = "nil"
        THEN [T |-> PutAll(T, r.elements, ks, 1), err |-> r.err]
        ELSE [T |-> T, err |-> r.err]

\* FromJSON(data); ks is the order in which range visits the decoded map
FromJSON(T, data, ks) ==
    LET r == Unmarshal(data)
    IN  IF r.err = "nil"
        THEN [T |-> PutAll(Clear(T), r.elements, ks, 1), err |-> r.err]
        ELSE [T |-> T, err |-> r.err]

\* the orders in which range may visit the keys S of a map: all of them
RECURSIVE Orders(_)
Orders(S) ==
    IF S = {} THEN {<<>>}
    ELSE UNION {{<<x>> \o ks : ks \in Orders(S \ {x})} : x \in S}

\* ---- the cursor (btree.go 596-745, package avltree) ----
\* The container's elements are the pairs of a finite map c; a node is
\* named by its key, Nil being no node.
begin == "begin"
between == "between"
end == "end"

\* Tree.Left, Tree.Right: the node of the smallest, of the largest key
Left(c) == IF DOMAIN c = {} THEN Nil
           ELSE CHOOSE x \in DOMAIN c : \A y \in DOMAIN c : x <= y
Right(c) == IF DOMAIN c = {} THEN Nil
            ELSE CHOOSE x \in DOMAIN c : \A y \in DOMAIN c : y <= x

\* Node.Next, Node.Prev: the node of the next larger, next smaller key
NodeNext(c, node) == Left([x \in {y \in DOMAIN c : y > node} |-> c[x]])
NodePrev(c, node) == Right([x \in {y \in DOMAIN c : y < node} |-> c[x]])

\* Tree.Iterator
NewIterator == [position |-> begin, node |-> Nil]

\* mutant of IteratorNext: the first call stays before the first element
IteratorNextSkipsFirst(it, c) ==
    LET moved == IF it.position = begin
                 THEN [position |-> between, node |-> NodeNext(c, Left(c))]
                 ELSE IF it.position = between
                 THEN [it EXCEPT !.node = NodeNext(c, it.node)]
                 ELSE it
    IN  IF moved.node = Nil
        THEN [iterator |-> [moved EXCEPT !.position = end], ok |-> FALSE]
        ELSE [iterator |-> moved, ok |-> TRUE]

\* Iterator.Next
IteratorNext(it, c) ==
    LET moved == IF it.position = begin
                 THEN [position |-> between, node |-> Left(c)]
                 ELSE IF it.position = between
                 THEN [it EXCEPT !.node = NodeNext(c, it.node)]
                 ELSE it
    IN  IF moved.node = Nil
        THEN [iterator |-> [moved EXCEPT !.position = end], ok |-> FALSE]
        ELSE [iterator |-> moved, ok |-> TRUE]

\* mutant of IteratorPrev: from after-last the cursor passes over the last
\* element
IteratorPrevSkipsLast(it, c) ==
    LET moved == IF it.position = end
                 THEN [position |-> between, node |-> NodePrev(c, Right(c))]
                 ELSE IF it.position = between
                 THEN [it EXCEPT !.node = NodePrev(c, it.node)]
                 ELSE it
    IN  IF moved.node = Nil
        THEN [iterator |-> [moved EXCEPT !.position = begin], ok |-> FALSE]
        ELSE [iterator |-> moved, ok |-> TRUE]

\* Iterator.Prev
IteratorPrev(it, c) ==
    LET moved == IF it.position = end
                 THEN [position |-> between, node |-> Right(c)]
                 ELSE IF it.position = between
                 THEN [it EXCEPT !.node = NodePrev(c, it.node)]
                 ELSE it
    IN  IF moved.node = Nil
        THEN [iterator |-> [moved EXCEPT !.position = begin], ok |-> FALSE]
        ELSE [iterator |-> moved, ok |-> TRUE]

\* Iterator.Key, Iterator.Value
IteratorKey(it) == IF it.node = Nil THEN ZeroValue ELSE it.node
IteratorValue(it, c) == IF it.node = Nil THEN ZeroValue ELSE c[it.node]

\* Iterator.Begin, Iterator.End
IteratorBegin(it) == [it EXCEPT !.node = Nil, !.position = begin]
IteratorEnd(it) == [it EXCEPT !.node = Nil, !.position = end]

\* mutant of IteratorFirst: Next is called from where the cursor is
IteratorFirstFromHere(it, c) == IteratorNext(it, c)

\* Iterator.First, Iterator.Last
IteratorFirst(it, c) == IteratorNext(IteratorBegin(it), c)
IteratorLast(it, c) == IteratorPrev(IteratorEnd(it), c)

\* ---- the maps (maps.go, hashmap.go, part_000, part_001) ----
\* A Go map, and the content of a red-black tree, is a finite function.
NoElements == <<>>

\* redblacktree.Tree: Put, Get, Remove, Floor, Ceiling over the tree's
\* content t, a node being [Key, Value]
rbtPut(t, key, value) == (key :> value) @@ t
rbtGet(t, key) ==
    IF key \in DOMAIN t THEN [value |-> t[key], found |-> TRUE]
    ELSE [value |-> ZeroValue, found |-> FALSE]
rbtRemove(t, key) == [x \in DOMAIN t \ {key} |-> t[x]]
rbtFloor(t, key) ==
    LET S == {x \in DOMAIN t : x <= key}
    IN  IF S = {} THEN [node |-> Nil, found |-> FALSE]
        ELSE LET x == CHOOSE y \in S : \A z \in S : z <= y
             IN  [node |-> [Key |-> x, Value |-> t[x]], found |-> TRUE]
rbtCeiling(t, key) ==
    LET S == {x \in DOMAIN t : x >= key}
    IN  IF S = {} THEN [node |-> Nil, found |-> FALSE]
        ELSE LET x == CHOOSE y \in S : \A z \in S : y <= z
             IN  [node |-> [Key |-> x, Value |-> t[x]], found |-> TRUE]

\* treemap.NewWithIntComparator, Put, Remove, Clear
treemapNew == [tree |-> NoElements]
treemapPut(mp, key, value) == [mp EXCEPT !.tree = rbtPut(@, key, value)]
treemapRemove(mp, key) == [mp EXCEPT !.tree = rbtRemove(@, key)]
treemapClear(mp) == [mp EXCEPT !.tree = NoElements]

\* treemap Map.Floor, Map.Ceiling
treemapFloor(mp, key) ==
    LET r == rbtFloor(mp.tree, key)
    IN  IF r.found THEN [foundKey |-> r.node.Key, foundValue |-> r.node.Value]
        ELSE [foundKey |-> ZeroValue, foundValue |-> ZeroValue]
treemapCeiling(mp, key) ==
    LET r == rbtCeiling(mp.tree, key)
    IN  IF r.found THEN [foundKey |-> r.node.Key, foundValue |-> r.node.Value]
        ELSE [foundKey |-> ZeroValue, foundValue |-> ZeroValue]

\* doublylinkedlist.List: Append, IndexOf (-1 when absent), Remove of the
\* element at an index (nothing for an index out of range), Size, Values,
\* Clear, over the list's elements l
listAppend(l, value) == Append(l, value)
listIndexOf(l, value) ==
    IF \E i \in 1..Len(l) : l[i] = value
    THEN (CHOOSE i \in 1..Len(l) : l[i] = value /\ \A j \in 1..(i - 1) : l[j] # value) - 1
    ELSE -1
listRemove(l, index) ==
    IF index < 0 \/ index >= Len(l) THEN l ELSE RemoveAt(l, index)
listSize(l) == Len(l)
listValues(l) == l
listClear(l) == <<>>

\* linkedhashmap.New
linkedhashmapNew == [table |-> NoElements, ordering |-> <<>>]

\* mutant of linkedhashmapPut: the key is appended whether held or not
linkedhashmapPutAppends(mp, key, value) ==
    [table |-> (key :> value) @@ mp.table,
     ordering |-> listAppend(mp.ordering, key)]

\* linkedhashmap Map.Put
linkedhashmapPut(mp, key, value) ==
    [table |-> (key :> value) @@ mp.table,
     ordering |-> IF key \notin DOMAIN mp.table
                  THEN listAppend(mp.ordering, key)
                  ELSE mp.ordering]

\* linkedhashmap Map.Get: the table's value for key (the zero value when
\* the table has none), found when that value is not the zero value
linkedhashmapGet(mp, key) ==
    LET value == IF key \in DOMAIN mp.table THEN mp.table[key] ELSE ZeroValue
    IN  [value |-> value, found |-> value # ZeroValue]

\* linkedhashmap Map.Remove
linkedhashmapRemove(mp, key) ==
    IF key \in DOMAIN mp.table
    THEN [table |-> [x \in DOMAIN mp.table \ {key} |-> mp.table[x]],
          ordering |-> listRemove(mp.ordering, listIndexOf(mp.ordering, key))]
    ELSE mp

\* linkedhashmap Map.Size, Map.Keys, Map.Clear
linkedhashmapSize(mp) == listSize(mp.ordering)
linkedhashmapKeys(mp) == listValues(mp.ordering)
linkedhashmapClear(mp) == [table |-> NoElements, ordering |-> listClear(mp.ordering)]

\* hashmap.Map: New, Put, Get, Remove, Size, Clear over the Go map m
hashmapNew == [m |-> NoElements]
hashmapPut(hm, key, value) == [hm EXCEPT !.m = (key :> value) @@ @]
hashmapGet(hm, key) ==
    IF key \in DOMAIN hm.m THEN [value |-> hm.m[key], found |-> TRUE]
    ELSE [value |-> ZeroValue, found |-> FALSE]
hashmapRemove(hm, key) == [hm EXCEPT !.m = [x \in DOMAIN @ \ {key} |-> @[x]]]
hashmapSize(hm) == Cardinality(DOMAIN hm.m)
hashmapClear(hm) == [hm EXCEPT !.m = NoElements]

\* hashbidimap.New
hashbidimapNew == [forwardMap |-> hashmapNew, inverseMap |-> hashmapNew]

\* mutant of hashbidimapPut: the key's earlier value stays in the inverse map
hashbidimapPutKeepsValue(mp, key, value) ==
    LET keyByValue == hashmapGet(mp.inverseMap, value)
        forward1 == IF keyByValue.found
                    THEN hashmapRemove(mp.forwardMap, keyByValue.value)
                    ELSE mp.forwardMap
    IN  [forwardMap |-> hashmapPut(forward1, key, value),
         inverseMap |-> hashmapPut(mp.inverseMap, value, key)]

\* hashbidimap Map.Put
hashbidimapPut(mp, key, value) ==
    LET valueByKey == hashmapGet(mp.forwardMap, key)
        inverse1 == IF valueByKey.found
                    THEN hashmapRemove(mp.inverseMap, valueByKey.value)
                    ELSE mp.inverseMap
        keyByValue == hashmapGet(inverse1, value)
        forward1 == IF keyByValue.found
                    THEN hashmapRemove(mp.forwardMap, keyByValue.value)
                    ELSE mp.forwardMap
    IN  [forwardMap |-> hashmapPut(forward1, key, value),
         inverseMap |-> hashmapPut(inverse1, value, key)]

\* hashbidimap Map.Get, GetKey, Remove, Size, Clear
hashbidimapGet(mp, key) == hashmapGet(mp.forwardMap, key)
hashbidimapGetKey(mp, value) == hashmapGet(mp.inverseMap, value)
hashbidimapRemove(mp, key) ==
    LET r == hashmapGet(mp.forwardMap, key)
    IN  IF r.found
        THEN [forwardMap |-> hashmapRemove(mp.forwardMap, key),
              inverseMap |-> hashmapRemove(mp.inverseMap, r.value)]
        ELSE mp
hashbidimapSize(mp) == hashmapSize(mp.forwardMap)
hashbidimapClear(mp) ==
    [forwardMap |-> hashmapClear(mp.forwardMap),
     inverseMap |-> hashmapClear(mp.inverseMap)]

\* redblacktree.Tree: Get of a tree of *data (nil when absent), Size, Keys
\* in ascending order, Clear
rbtGetData(t, key) ==
    IF key \in DOMAIN t THEN [value |-> t[key], found |-> TRUE]
    ELSE [value |-> Nil, found |-> FALSE]
rbtSize(t) == Cardinality(DOMAIN t)
rbtKeys(t) == Ascending(DOMAIN t)
rbtClear(t) == NoElements

\* treebidimap.NewWithIntComparators; data is the struct {key, value}
treebidimapNew == [forwardMap |-> NoElements, inverseMap |-> NoElements]
dataOf(key, value) == [key |-> key, value |-> value]

\* mutant of treebidimapPut: the key's earlier value stays in the inverse map
treebidimapPutKeepsValue(mp, key, value) ==
    LET byValue == rbtGetData(mp.inverseMap, value)
        forward1 == IF byValue.found
                    THEN rbtRemove(mp.forwardMap, byValue.value.key)
                    ELSE mp.forwardMap
        d == dataOf(key, value)
    IN  [forwardMap |-> rbtPut(forward1, key, d),
         inverseMap |-> rbtPut(mp.inverseMap, value, d)]

\* treebidimap Map.Put
treebidimapPut(mp, key, value) ==
    LET byKey == rbtGetData(mp.forwardMap, key)
        inverse1 == IF byKey.found
                    THEN rbtRemove(mp.inverseMap, byKey.value.value)
                    ELSE mp.inverseMap
        byValue == rbtGetData(inverse1, value)
        forward1 == IF byValue.found
                    THEN rbtRemove(mp.forwardMap, byValue.value.key)
                    ELSE mp.forwardMap
        d == dataOf(key, value)
    IN  [forwardMap |-> rbtPut(forward1, key, d),
         inverseMap |-> rbtPut(inverse1, value, d)]

\* treebidimap Map.Get, GetKey, Remove, Size, Keys, Values, Clear
treebidimapGet(mp, key) ==
    LET r == rbtGetData(mp.forwardMap, key)
    IN  IF r.found THEN [value |-> r.value.value, found |-> TRUE]
        ELSE [value |-> ZeroValue, found |-> FALSE]
treebidimapGetKey(mp, value) ==
    LET r == rbtGetData(mp.inverseMap, value)
    IN  IF r.found THEN [value |-> r.value.key, found |-> TRUE]
        ELSE [value |-> ZeroValue, found |-> FALSE]
treebidimapRemove(mp, key) ==
    LET r == rbtGetData(mp.forwardMap, key)
    IN  IF r.found
        THEN [forwardMap |-> rbtRemove(mp.forwardMap, key),
              inverseMap |-> rbtRemove(mp.inverseMap, r.value.value)]
        ELSE mp
treebidimapSize(mp) == rbtSize(mp.forwardMap)
treebidimapKeys(mp) == rbtKeys(mp.forwardMap)
treebidimapValues(mp) == rbtKeys(mp.inverseMap)
treebidimapClear(mp) ==
    [forwardMap |-> rbtClear(mp.forwardMap),
     inverseMap |-> rbtClear(mp.inverseMap)]

\* ---- the state machine ----
NoNodes == <<>>

\* the maps as their constructors give them, and a call that writes none
NewMaps ==
    /\ treeMap = treemapNew
    /\ linkedMap = linkedhashmapNew
    /\ hashBidi = hashbidimapNew
    /\ treeBidi = treebidimapNew

MapsFrame == UNCHANGED <<treeMap, linkedMap, hashBidi, treeBidi>>

\* mutant of NewWith: only the orders below 1 are refused
NewWithRefusesNonPositive(order) ==
    /\ orderArg = order
    /\ nodes = NoNodes
    /\ IF order < 1
       THEN pc = "panic" /\ m = 0 /\ Root = Nil /\ size = 0
       ELSE pc = "ready" /\ m = order /\ Root = Nil /\ size = 0

\* NewWith(order, comparator): a panic leaves no Tree (its fields are shown
\* with their zero values), otherwise the Tree literal sets m alone
NewWith(order) ==
    /\ orderArg = order
    /\ nodes = NoNodes
    /\ IF order < MinOrder
       THEN pc = "panic" /\ m = 0 /\ Root = Nil /\ size = 0
       ELSE pc = "ready" /\ m = order /\ Root = Nil /\ size = 0

Init ==
    /\ \E order \in MinOrder..MaxOrder : NewWith(order)
    /\ err = "nil"
    /\ iterator = NewIterator
    /\ walk = <<>>
    /\ NewMaps
    /\ model = NoNodes
    /\ lastOp = [op |-> "NewWith", key |-> 0, value |-> 0,
                 found |-> FALSE, internal |-> FALSE]

Result(T) ==
    \E c \in {Collect(T)} :
        /\ Root' = c.Root
        /\ size' = c.size
        /\ nodes' = c.nodes
        /\ UNCHANGED <<m, pc, err, orderArg, iterator, walk>>
        /\ MapsFrame

\* the record of a call: its arguments and what it met in the tree (whether
\* the key was held, and whether in an internal node; for Clear, whether
\* the tree held anything)
Met(op, key, value) ==
    LET r == searchRecursively(Tree, Root, key)
    IN  [op |-> op, key |-> key, value |-> value, found |-> r.found,
         internal |-> r.found /\ ~isLeaf(nodes[r.node])]

\* the shorter record SpecDeep keeps: the call's name and whether the key
\* was held (the other fields stay as they were initially)
MetDeep(op, key) ==
    [lastOp EXCEPT !.op = op, !.found = searchRecursively(Tree, Root, key).found]

DoPut(k, v) ==
    /\ Result(Put(Tree, k, v))
    /\ model' = (k :> v) @@ model

DoRemove(k) ==
    /\ Result(Remove(Tree, k))
    /\ model' = [x \in DOMAIN model \ {k} |-> model[x]]

DoClear ==
    /\ Result(Clear(Tree))
    /\ model' = NoNodes
    /\ lastOp' = [op |-> "Clear", key |-> 0, value |-> 0,
                  found |-> ~Empty(Tree), internal |-> FALSE]

\* Spec: few keys, several values, the full record of each call
Next ==
    \/ \E k \in 1..MaxKey, v \in 1..MaxVal :
           DoPut(k, v) /\ lastOp' = Met("Put", k, v)
    \/ \E k \in 1..MaxKey : DoRemove(k) /\ lastOp' = Met("Remove", k, 0)
    \/ DoClear

Spec == Init /\ [][Next]_vars

\* SpecDeep: more keys, for the deeper trees: DeepKeys keys for the smallest
\* order (which gives the deepest trees) and WideKeys keys for the others.
\* Each key is always put with the same value (the key itself), so a Put of
\* a held key would rewrite the entry it finds, as a Remove of an absent key
\* changes nothing: SpecDeep makes only the calls that insert or delete an
\* entry, and Spec makes them all.
KeysFor(order) == IF order = MinOrder THEN DeepKeys ELSE WideKeys

NextDeep ==
    \/ \E k \in 1..KeysFor(m) :
           /\ ~Get(Tree, k).found
           /\ DoPut(k, k) /\ lastOp' = MetDeep("Put", k)
    \/ \E k \in 1..KeysFor(m) :
           /\ Get(Tree, k).found
           /\ DoRemove(k) /\ lastOp' = MetDeep("Remove", k)
    \/ DoClear

SpecDeep == Init /\ [][NextDeep]_vars

\* SpecNew: as Spec, with NewWith also called with orders below MinOrder;
\* after a panic no call follows
InitNew ==
    /\ \E order \in (MinOrder - MaxBelow)..MaxOrder : NewWith(order)
    /\ err = "nil"
    /\ iterator = NewIterator
    /\ walk = <<>>
    /\ NewMaps
    /\ model = NoNodes
    /\ lastOp = [op |-> "NewWith", key |-> 0, value |-> 0,
                 found |-> FALSE, internal |-> FALSE]

NextNew == pc = "ready" /\ Next

SpecNew == InitNew /\ [][NextNew]_vars

\* SpecJSON: FromJSON and Remove calls on a tree of any order up to MaxOrder. The
\* texts given are the encoded forms of maps with keys among JsonKeys (the
\* value of a key k being k + v for one v of 1..MaxVal), and damaged copies
\* of the tree's own encoded form: cut short, or with one character replaced.
JsonKeys == {KeyStep * i : i \in 1..JsonPairs}
JsonMaps == {[k \in S |-> k + v] : S \in SUBSET JsonKeys, v \in 1..MaxVal}

\* the encoded form of the map mp, as ToJSON makes it from a tree's elements
Encode(mp) ==
    Marshal([str \in {utilsToString(k) : k \in DOMAIN mp} |->
                mp[CHOOSE k \in DOMAIN mp : utilsToString(k) = str]])

Damaged(data) ==
    {SubSeq(data, 1, n) : n \in 0..(Len(data) - 1)}
    \cup {[data EXCEPT ![i] = "x"] : i \in 1..Len(data)}

\* a FromJSON call; described is the map the text stands for
DoFromJSON(data, ks, described) ==
    \E r \in {FromJSON(Tree, data, ks)} : \E c \in {Collect(r.T)} :
        /\ Root' = c.Root
        /\ size' = c.size
        /\ nodes' = c.nodes
        /\ err' = r.err
        /\ UNCHANGED <<m, pc, orderArg, iterator, walk>>
        /\ MapsFrame
        /\ model' = IF r.err = "nil" THEN described ELSE model
        /\ lastOp' = [op |-> "FromJSON", key |-> 0, value |-> 0,
                      found |-> ~Empty(Tree), internal |-> FALSE]

JsonDecode ==
    \E mp \in JsonMaps :
        LET data == Encode(mp)
        IN  \E ks \in Orders(DOMAIN Unmarshal(data).elements) :
                DoFromJSON(data, ks, mp)

JsonDamaged ==
    \E data \in Damaged(ToJSON(Tree)) :
        LET elements == Unmarshal(data).elements
        IN  \E ks \in Orders(DOMAIN elements) :
                DoFromJSON(data, ks, elements)

JsonRemove ==
    \E k \in JsonKeys : DoRemove(k) /\ lastOp' = MetDeep("Remove", k)

InitJSON ==
    /\ \E order \in MinOrder..MaxOrder : NewWith(order)
    /\ err = "nil"
    /\ iterator = NewIterator
    /\ walk = <<>>
    /\ NewMaps
    /\ model = NoNodes
    /\ lastOp = [op |-> "NewWith", key |-> 0, value |-> 0,
                 found |-> FALSE, internal |-> FALSE]

NextJSON == JsonDecode \/ JsonDamaged \/ JsonRemove

SpecJSON == InitJSON /\ [][NextJSON]_vars

\* SpecScript: the scenario of the order-3 example. The keys of Script are
\* put in that order (each with itself as value); once all are held, held
\* keys are removed in any order.
Script == <<10, 20, 5, 6, 12, 30, 7, 17>>
ScriptKeys == {Script[i] : i \in 1..Len(Script)}

ScriptPut ==
    LET n == Cardinality(DOMAIN model)
    IN  /\ lastOp.op \in {"NewWith", "Put"}
        /\ n < Len(Script)
        /\ DoPut(Script[n + 1], Script[n + 1])
        /\ lastOp' = Met("Put", Script[n + 1], Script[n + 1])

ScriptRemove ==
    /\ lastOp.op = "Remove" \/ DOMAIN model = ScriptKeys
    /\ \E k \in DOMAIN model : DoRemove(k) /\ lastOp' = Met("Remove", k, 0)

NextScript == ScriptPut \/ ScriptRemove

SpecScript == Init /\ [][NextScript]_vars

\* SpecCursor: a cursor over a container that holds some of the keys
\* 1..MaxKey, each with one value of 1..MaxVal. Next and Prev are called
\* in any order, at most MaxWalk calls counting from the last Begin, End,
\* First or Last (or from the cursor's making); walk records each of these
\* calls, the position it was made from and the one it led to, its answer
\* (TRUE for Begin and End, which give none) and the element the cursor
\* then reads.
Contents == {[k \in S |-> v] : S \in SUBSET (1..MaxKey), v \in 1..MaxVal}

Called(op, it, ok) ==
    [op |-> op, from |-> iterator.position, to |-> it.position, ok |-> ok,
     node |-> it.node,
     key |-> IteratorKey(it), value |-> IteratorValue(it, model)]

CursorFrame ==
    /\ UNCHANGED <<m, Root, size, nodes, pc, err, orderArg, model, lastOp>>
    /\ MapsFrame

CursorNext ==
    /\ Len(walk) < MaxWalk
    /\ \E r \in {IteratorNext(iterator, model)} :
           /\ iterator' = r.iterator
           /\ walk' = Append(walk, Called("Next", r.iterator, r.ok))
    /\ CursorFrame

CursorPrev ==
    /\ Len(walk) < MaxWalk
    /\ \E r \in {IteratorPrev(iterator, model)} :
           /\ iterator' = r.iterator
           /\ walk' = Append(walk, Called("Prev", r.iterator, r.ok))
    /\ CursorFrame

CursorBegin ==
    /\ iterator' = IteratorBegin(iterator)
    /\ walk' = <<Called("Begin", IteratorBegin(iterator), TRUE)>>
    /\ CursorFrame

CursorEnd ==
    /\ iterator' = IteratorEnd(iterator)
    /\ walk' = <<Called("End", IteratorEnd(iterator), TRUE)>>
    /\ CursorFrame

CursorFirst ==
    /\ \E r \in {IteratorFirst(iterator, model)} :
           /\ iterator' = r.iterator
           /\ walk' = <<Called("First", r.iterator, r.ok)>>
    /\ CursorFrame

CursorLast ==
    /\ \E r \in {IteratorLast(iterator, model)} :
           /\ iterator' = r.iterator
           /\ walk' = <<Called("Last", r.iterator, r.ok)>>
    /\ CursorFrame

InitCursor ==
    /\ NewWith(MinOrder)
    /\ err = "nil"
    /\ model \in Contents
    /\ iterator = NewIterator
    /\ walk = <<>>
    /\ NewMaps
    /\ lastOp = [op |-> "NewWith", key |-> 0, value |-> 0,
                 found |-> FALSE, internal |-> FALSE]

NextCursor ==
    \/ CursorNext \/ CursorPrev
    \/ CursorBegin \/ CursorEnd
    \/ CursorFirst \/ CursorLast

SpecCursor == InitCursor /\ [][NextCursor]_vars

\* SpecTreeMap: Put, Remove, Clear, Floor and Ceiling calls on a tree map
\* with int keys 0..MaxKey and int values 0..MaxVal; Floor and Ceiling are
\* also asked for the key below and the key above all of these. lastOp
\* records the call and, for Floor and Ceiling, what it returned.
MapKeys == ZeroValue..MaxKey
MapVals == ZeroValue..MaxVal
Probes == (ZeroValue - 1)..(MaxKey + 1)

TreeMapFrame ==
    UNCHANGED <<m, Root, size, nodes, pc, err, orderArg, iterator, linkedMap,
                hashBidi, treeBidi, model, walk>>

TreeMapPut ==
    \E k \in MapKeys, v \in MapVals :
        /\ treeMap' = treemapPut(treeMap, k, v)
        /\ lastOp' = [op |-> "Put"]
        /\ TreeMapFrame

TreeMapRemove ==
    \E k \in MapKeys :
        /\ treeMap' = treemapRemove(treeMap, k)
        /\ lastOp' = [op |-> "Remove"]
        /\ TreeMapFrame

TreeMapClear ==
    /\ treeMap' = treemapClear(treeMap)
    /\ lastOp' = [op |-> "Clear"]
    /\ TreeMapFrame

TreeMapFloor ==
    \E k \in Probes : \E r \in {treemapFloor(treeMap, k)} :
        /\ lastOp' = [op |-> "Floor", key |-> k,
                      foundKey |-> r.foundKey, foundValue |-> r.foundValue]
        /\ UNCHANGED treeMap
        /\ TreeMapFrame

TreeMapCeiling ==
    \E k \in Probes : \E r \in {treemapCeiling(treeMap, k)} :
        /\ lastOp' = [op |-> "Ceiling", key |-> k,
                      foundKey |-> r.foundKey, foundValue |-> r.foundValue]
        /\ UNCHANGED treeMap
        /\ TreeMapFrame

InitMaps ==
    /\ NewWith(MinOrder)
    /\ err = "nil"
    /\ iterator = NewIterator
    /\ walk = <<>>
    /\ NewMaps
    /\ model = NoNodes
    /\ lastOp = [op |-> "New"]

NextTreeMap ==
    \/ TreeMapPut \/ TreeMapRemove \/ TreeMapClear
    \/ TreeMapFloor \/ TreeMapCeiling

SpecTreeMap == InitMaps /\ [][NextTreeMap]_vars

\* SpecLinked: Put, Get, Remove and Clear calls on a linked hash map with
\* int keys 0..MaxLinkedKey and int values 0..MaxVal. lastOp records the
\* call and, for Get, what it returned.
LinkedKeys == ZeroValue..MaxLinkedKey

LinkedFrame ==
    UNCHANGED <<m, Root, size, nodes, pc, err, orderArg, iterator, treeMap,
                hashBidi, treeBidi, model, walk>>

LinkedPut ==
    \E k \in LinkedKeys, v \in MapVals :
        /\ linkedMap' = linkedhashmapPut(linkedMap, k, v)
        /\ lastOp' = [op |-> "Put", key |-> k, value |-> v]
        /\ LinkedFrame

LinkedGet ==
    \E k \in LinkedKeys : \E r \in {linkedhashmapGet(linkedMap, k)} :
        /\ lastOp' = [op |-> "Get", key |-> k, value |-> r.value, found |-> r.found]
        /\ UNCHANGED linkedMap
        /\ LinkedFrame

LinkedRemove ==
    \E k \in LinkedKeys :
        /\ linkedMap' = linkedhashmapRemove(linkedMap, k)
        /\ lastOp' = [op |-> "Remove", key |-> k]
        /\ LinkedFrame

LinkedClear ==
    /\ linkedMap' = linkedhashmapClear(linkedMap)
    /\ lastOp' = [op |-> "Clear"]
    /\ LinkedFrame

NextLinked == LinkedPut \/ LinkedGet \/ LinkedRemove \/ LinkedClear

SpecLinked == InitMaps /\ [][NextLinked]_vars

\* SpecBidi: a hash bidirectional map and a tree bidirectional map, with
\* int keys 0..MaxKey and int values 0..MaxVal, are given the same Put,
\* Remove and Clear calls. lastOp records the call, and for a Put the Size()
\* of the hash map before it.
BidiFrame ==
    UNCHANGED <<m, Root, size, nodes, pc, err, orderArg, iterator, treeMap,
                linkedMap, model, walk>>

BidiPut ==
    \E k \in MapKeys, v \in MapVals :
        /\ hashBidi' = hashbidimapPut(hashBidi, k, v)
        /\ treeBidi' = treebidimapPut(treeBidi, k, v)
        /\ lastOp' = [op |-> "Put", key |-> k, value |-> v,
                      before |-> hashbidimapSize(hashBidi)]
        /\ BidiFrame

BidiRemove ==
    \E k \in MapKeys :
        /\ hashBidi' = hashbidimapRemove(hashBidi, k)
        /\ treeBidi' = treebidimapRemove(treeBidi, k)
        /\ lastOp' = [op |-> "Remove", key |-> k]
        /\ BidiFrame

BidiClear ==
    /\ hashBidi' = hashbidimapClear(hashBidi)
    /\ treeBidi' = treebidimapClear(treeBidi)
    /\ lastOp' = [op |-> "Clear"]
    /\ BidiFrame

NextBidi == BidiPut \/ BidiRemove \/ BidiClear

SpecBidi == InitMaps /\ [][NextBidi]_vars

\* SpecTall: every Put and Remove call on up to TallKeys keys, each key put
\* with itself as its value, enough for a root that is an internal node to
\* split and to collapse. lastOp records the call, what it met in the tree
\* and Height() before it.
MetTall(op, key, value) == ("height" :> Height(Tree)) @@ Met(op, key, value)

NextTall ==
    \/ \E k \in 1..TallKeys : DoPut(k, k) /\ lastOp' = MetTall("Put", k, k)
    \/ \E k \in 1..TallKeys : DoRemove(k) /\ lastOp' = MetTall("Remove", k, 0)
    \/ DoClear

SpecTall == Init /\ [][NextTall]_vars

\* ---- the vocabulary of the properties ----
TreeNext == [Root |-> Root', size |-> size', nodes |-> nodes']

Largest(S) == CHOOSE x \in S : \A y \in S : y <= x
KeyUniverse == 0..(Largest({MaxKey, DeepKeys, WideKeys}) + 1)

\* the nodes under n (n included), each with its depth, n being at depth d
RECURSIVE Levels(_, _, _)
Levels(h, n, d) ==
    {<<n, d>>} \cup
    UNION {Levels(h, h[n].Children[i], d + 1) : i \in 1..Len(h[n].Children)}

InTree == IF Root = Nil THEN {} ELSE Levels(nodes, Root, 1)

RECURSIVE SubtreeKeys(_, _)
SubtreeKeys(h, n) ==
    {h[n].Entries[i].Key : i \in 1..Len(h[n].Entries)} \cup
    UNION {SubtreeKeys(h, h[n].Children[i]) : i \in 1..Len(h[n].Children)}

RECURSIVE CountEntries(_, _)
RECURSIVE SumSeq(_, _)
SumSeq(s, i) == IF i > Len(s) THEN 0 ELSE s[i] + SumSeq(s, i + 1)
CountEntries(h, n) ==
    IF n = Nil THEN 0
    ELSE Len(h[n].Entries) +
         SumSeq([i \in 1..Len(h[n].Children) |-> CountEntries(h, h[n].Children[i])], 1)

CeilHalf(x) == CHOOSE c \in 0..x : 2 * c >= x /\ 2 * (c - 1) < x

\* the nodes with the value held for key blanked: the node structure
\* (parents, entry keys, children) and the value of every other key, which
\* together with Root are all that Get of another key reads
ExceptValueOf(h, key) ==
    [n \in DOMAIN h |->
        [Parent |-> h[n].Parent,
         Entries |-> [i \in 1..Len(h[n].Entries) |->
                        IF h[n].Entries[i].Key = key
                        THEN Entry(key, ZeroValue)
                        ELSE h[n].Entries[i]],
         Children |-> h[n].Children]]

\* ---- the properties ----

\* C1: the tree is a finite map. After any calls of Put, Remove and Clear,
\* Get(k) is (v, true) exactly for the keys put and not removed or cleared
\* since, v being the value of the last Put of k, and (zero value, false) for
\* every other key.
C1_GetIsFiniteMap ==
    \A k \in KeyUniverse :
        Get(Tree, k) = IF k \in DOMAIN model
                       THEN [value |-> model[k], found |-> TRUE]
                       ELSE [value |-> ZeroValue, found |-> FALSE]

C1_Witness ==
    /\ lastOp.op = "Remove" /\ lastOp.found
    /\ Cardinality(DOMAIN model) >= 2
    /\ \E k \in DOMAIN model : model[k] = MaxVal
    /\ Height(Tree) = 2

\* C2: Keys() is strictly increasing under the comparator and lists each
\* live key exactly once, and Values()[i] is the value held for Keys()[i].
C2_KeysValuesOrdered ==
    LET ks == Keys(Tree)
        vs == Values(Tree)
        n == Len(ks.keys)
    IN  /\ ~ks.panic /\ ~vs.panic
        /\ \A i, j \in 1..n : i < j => Comparator(ks.keys[i], ks.keys[j]) < 0
        /\ {ks.keys[i] : i \in 1..n} = DOMAIN model
        /\ n = Cardinality(DOMAIN model)
        /\ Len(vs.values) = n
        /\ \A i \in 1..n :
               Get(Tree, ks.keys[i]) = [value |-> vs.values[i], found |-> TRUE]

C2_Witness ==
    /\ lastOp.op = "Remove" /\ lastOp.found
    /\ Len(Keys(Tree).keys) >= 7
    /\ Height(Tree) = 3

\* C3: after every completed Put or Remove all leaves are at the same depth.
C3_LeavesSameDepth ==
    \A x, y \in InTree :
        (isLeaf(nodes[x[1]]) /\ isLeaf(nodes[y[1]])) => x[2] = y[2]

C3_Witness ==
    /\ lastOp.op = "Remove" /\ lastOp.found
    /\ Height(Tree) = 3
    /\ Size(Tree) = 8
    /\ Cardinality({x \in InTree : isLeaf(nodes[x[1]])}) = 4

\* C4: after every completed Put or Remove every internal node other than the
\* root has at least ceil(m/2) and at most m children.
C4_InternalChildrenBounds ==
    \A x \in InTree :
        (x[1] # Root /\ ~isLeaf(nodes[x[1]])) =>
            /\ Len(nodes[x[1]].Children) >= CeilHalf(m)
            /\ Len(nodes[x[1]].Children) <= m

C4_Witness ==
    /\ lastOp.op = "Remove" /\ lastOp.found
    /\ Height(Tree) = 3
    /\ \A x \in InTree : x[2] = 2 => Len(nodes[x[1]].Children) = CeilHalf(m)
    /\ \E x \in InTree : x[2] = 3 /\ Len(nodes[x[1]].Entries) = m - 1

\* C5: after every completed Put or Remove the root is a leaf or has at
\* least two children, and a root without entries is never left in place.
C5_RootShape ==
    Root # Nil =>
        /\ Len(nodes[Root].Entries) >= 1
        /\ isLeaf(nodes[Root]) \/ Len(nodes[Root].Children) >= 2

C5_Witness ==
    /\ lastOp.op = "Remove" /\ lastOp.found
    /\ Root # Nil
    /\ Len(nodes[Root].Children) = 2
    /\ Height(Tree) = 3

\* C6: after every completed Put or Remove every internal node with k entries
\* has exactly k+1 children and every leaf (a node of the last level) none.
C6_ChildrenCount ==
    \A x \in InTree :
        IF x[2] < Height(Tree)
        THEN Len(nodes[x[1]].Children) = Len(nodes[x[1]].Entries) + 1
        ELSE Len(nodes[x[1]].Children) = 0

C6_Witness ==
    /\ lastOp.op = "Remove" /\ lastOp.found
    /\ \E x \in InTree :
          /\ x[2] = 1
          /\ Len(nodes[x[1]].Entries) = 3
          /\ Len(nodes[x[1]].Children) = 4

\* C7: after every completed Put or Remove the entries of each node are
\* strictly increasing, and for the entry at position i of an internal node
\* every key under child[i] is smaller and every key under child[i+1] larger.
C7_Ordered ==
    \A x \in InTree :
        LET node == nodes[x[1]]
        IN  /\ \A i, j \in 1..Len(node.Entries) :
                   i < j => Comparator(node.Entries[i].Key, node.Entries[j].Key) < 0
            /\ \A i \in 1..Len(node.Entries) :
                   /\ i <= Len(node.Children) =>
                        \A k \in SubtreeKeys(nodes, node.Children[i]) :
                            Comparator(k, node.Entries[i].Key) < 0
                   /\ i + 1 <= Len(node.Children) =>
                        \A k \in SubtreeKeys(nodes, node.Children[i + 1]) :
                            Comparator(k, node.Entries[i].Key) > 0

C7_Witness ==
    /\ lastOp.op = "Remove" /\ lastOp.found
    /\ Height(Tree) = 3
    /\ m = 3
    /\ \E x \in InTree : x[2] = 3 /\ Len(nodes[x[1]].Entries) = 2

\* C8: between operations Size() is the number of entries in the nodes
\* reachable from the root, Empty() holds exactly when that number is zero,
\* and the root is absent exactly when Size() is 0.
C8_SizeCountsEntries ==
    /\ Size(Tree) = CountEntries(nodes, Root)
    /\ Empty(Tree) <=> (CountEntries(nodes, Root) = 0)
    /\ (Root = Nil) <=> (Size(Tree) = 0)

C8_Witness ==
    /\ lastOp.op = "Remove" /\ lastOp.found
    /\ Root = Nil
    /\ Size(Tree) = 0

\* C9: Put(k, v2) on a tree that holds k (in a leaf or in an internal node)
\* leaves Size() unchanged, makes Get(k) return v2, and changes neither the
\* node structure nor the value of any other key.
C9_OverwriteFrame ==
    [][(lastOp'.op = "Put" /\ Get(Tree, lastOp'.key).found) =>
          /\ Size(TreeNext) = Size(Tree)
          /\ Get(TreeNext, lastOp'.key) = [value |-> lastOp'.value, found |-> TRUE]
          /\ Root' = Root
          /\ ExceptValueOf(nodes', lastOp'.key) = ExceptValueOf(nodes, lastOp'.key)]_vars

C9_Witness ==
    /\ lastOp.op = "Put" /\ lastOp.found /\ lastOp.internal
    /\ Get(Tree, lastOp.key) = [value |-> lastOp.value, found |-> TRUE]
    /\ \E k \in DOMAIN model : model[k] # lastOp.value

\* C10: Remove(k) of a key the tree does not hold (the empty tree included)
\* leaves Keys(), Values(), Size() and the whole node structure unchanged.
C10_RemoveAbsentFrame ==
    [][(lastOp'.op = "Remove" /\ ~Get(Tree, lastOp'.key).found) =>
          /\ Keys(TreeNext) = Keys(Tree)
          /\ Values(TreeNext) = Values(Tree)
          /\ Size(TreeNext) = Size(Tree)
          /\ Root' = Root
          /\ nodes' = nodes]_vars

C10_Witness ==
    /\ lastOp.op = "Remove" /\ ~lastOp.found
    /\ Height(Tree) = 2

\* C11: when unique keys are inserted in any order and then all removed in
\* any order, the tree is empty afterwards (Empty(), no root, Get finds no
\* key), and in every state on the way all leaves share one depth, every
\* non-root internal node has between ceil(m/2) and m children, and Size()
\* is the number of live entries.
C11_InsertRemoveAll ==
    /\ (DOMAIN model = {}) =>
           /\ Empty(Tree) /\ Root = Nil
           /\ \A k \in KeyUniverse : ~Get(Tree, k).found
    /\ \A x, y \in InTree :
           (nodes[x[1]].Children = <<>> /\ nodes[y[1]].Children = <<>>) => x[2] = y[2]
    /\ \A x \in InTree :
           (x[1] # Root /\ nodes[x[1]].Children # <<>>) =>
               Len(nodes[x[1]].Children) \in CeilHalf(m)..m
    /\ Size(Tree) = Cardinality(DOMAIN model)
    /\ CountEntries(nodes, Root) = Cardinality(DOMAIN model)

\* C11 as stated: the bounds on the children are required of every non-root
\* node, the leaves included.
C11_AsStated ==
    /\ (DOMAIN model = {}) =>
           /\ Empty(Tree) /\ Root = Nil
           /\ \A k \in KeyUniverse : ~Get(Tree, k).found
    /\ \A x, y \in InTree :
           (nodes[x[1]].Children = <<>> /\ nodes[y[1]].Children = <<>>) => x[2] = y[2]
    /\ \A x \in InTree :
           x[1] # Root => Len(nodes[x[1]].Children) \in CeilHalf(m)..m
    /\ Size(Tree) = Cardinality(DOMAIN model)
    /\ CountEntries(nodes, Root) = Cardinality(DOMAIN model)

\* the last key of a tree has just been removed
C11_Witness ==
    /\ lastOp.op = "Remove" /\ lastOp.found
    /\ DOMAIN model = {}
    /\ Empty(Tree) /\ Root = Nil
    /\ \A k \in KeyUniverse : ~Get(Tree, k).found

\* C12: on an order-3 tree, putting 10, 20, 5, 6, 12, 30, 7, 17 in that order
\* makes Keys() yield [5,6,7,10,12,17,20,30]; removing 6 and then 10 makes
\* Keys() yield [5,7,12,17,20,30], and the six structural invariants hold.
C12_Scenario ==
    m = 3 =>
       /\ (lastOp.op = "Put" /\ DOMAIN model = ScriptKeys) =>
              Keys(Tree) = [panic |-> FALSE, keys |-> <<5, 6, 7, 10, 12, 17, 20, 30>>]
       /\ (lastOp.op = "Remove" /\ lastOp.key = 10 /\ DOMAIN model = ScriptKeys \ {6, 10}) =>
              /\ Keys(Tree) = [panic |-> FALSE, keys |-> <<5, 7, 12, 17, 20, 30>>]
              /\ C3_LeavesSameDepth /\ C5_RootShape /\ C4_InternalChildrenBounds
              /\ C6_ChildrenCount /\ C7_Ordered

\* 6 and then 10 have been removed from the order-3 tree of the scenario
C12_Witness ==
    /\ m = 3
    /\ lastOp.op = "Remove" /\ lastOp.key = 10 /\ lastOp.found
    /\ DOMAIN model = ScriptKeys \ {6, 10}
    /\ Keys(Tree).keys = <<5, 7, 12, 17, 20, 30>>

\* C13: after every completed Put or Remove the parent reference of every
\* child of a node of the tree is that node, and the root has none: no split,
\* borrow, merge or root collapse leaves a stale parent reference.
C13_ParentReferences ==
    /\ Root # Nil => nodes[Root].Parent = Nil
    /\ \A x \in InTree :
           \A i \in 1..Len(nodes[x[1]].Children) :
               nodes[nodes[x[1]].Children[i]].Parent = x[1]

\* a Remove has just merged two internal nodes into the new root of an
\* order-3 tree: 8 keys at height 2 can only come from 9 keys at height 3
C13_Witness ==
    /\ lastOp.op = "Remove" /\ lastOp.found
    /\ m = 3 /\ Height(Tree) = 2 /\ Size(Tree) = 8
    /\ nodes[Root].Parent = Nil
    /\ \A i \in 1..Len(nodes[Root].Children) :
           nodes[nodes[Root].Children[i]].Parent = Root

\* C14: NewWith with an order below 3 (0 and the negative ones included)
\* panics and produces no tree; with an order of 3 or more it yields an empty
\* tree of that order, with Size() = 0 and no root.
C14_Constructor ==
    /\ orderArg < 3 =>
           /\ pc = "panic"
           /\ lastOp.op = "NewWith" /\ nodes = NoNodes /\ Root = Nil
    /\ orderArg >= 3 =>
           /\ pc = "ready" /\ m = orderArg
           /\ lastOp.op = "NewWith" =>
                  /\ Size(Tree) = 0 /\ Empty(Tree) /\ Root = Nil
                  /\ nodes = NoNodes

\* NewWith was called with a negative order
C14_Witness ==
    /\ orderArg < 0
    /\ lastOp.op = "NewWith"
    /\ pc = "panic"

\* C15: Clear() resets the tree to the empty state: afterwards there is no
\* root, Size() is 0, Empty() holds, Keys() and Values() are empty and Get
\* finds no key; the order is the one given at construction, and a Put that
\* follows gives what it gives on a new tree: a root leaf with the one entry.
C15_ClearResets ==
    lastOp.op = "Clear" =>
        /\ Root = Nil /\ Size(Tree) = 0 /\ Empty(Tree)
        /\ Keys(Tree) = [panic |-> FALSE, keys |-> <<>>]
        /\ Values(Tree) = [panic |-> FALSE, values |-> <<>>]
        /\ \A k \in KeyUniverse : Get(Tree, k) = [value |-> ZeroValue, found |-> FALSE]
        /\ m = orderArg /\ pc = "ready"
        /\ \A k \in 1..MaxKey, v \in 1..MaxVal :
               LET T1 == Collect(Put(Tree, k, v))
               IN  /\ T1.size = 1 /\ T1.Root # Nil
                   /\ T1.nodes[T1.Root] = Node(Nil, <<Entry(k, v)>>, <<>>)
                   /\ Get(T1, k) = [value |-> v, found |-> TRUE]

\* Clear() has just been called on a tree that held entries
C15_Witness ==
    /\ lastOp.op = "Clear" /\ lastOp.found
    /\ Root = Nil /\ Size(Tree) = 0

\* the tree NewWith gives: no root, no entries
Fresh == [Root |-> Nil, size |-> 0, nodes |-> NoNodes]

\* C16: given a malformed encoded form (the tree's own encoded form cut
\* short, or with one character replaced by one that is no digit), FromJSON
\* returns an error and the tree's root, size and nodes, hence its keys and
\* values, are what they were before the call.
C16_MalformedLeavesTree ==
    \A data \in Damaged(ToJSON(Tree)) :
        LET r == Unmarshal(data)
        IN  /\ r.err # "nil"
            /\ \A ks \in Orders(DOMAIN r.elements) :
                   LET res == FromJSON(Tree, data, ks)
                   IN  /\ res.err = r.err
                       /\ res.T = Tree
                       /\ Keys(res.T) = Keys(Tree)
                       /\ Values(res.T) = Values(Tree)
                       /\ Size(res.T) = Size(Tree)

\* C16 witness: FromJSON has just refused a text, given to a tree of two
\* levels, and a damaged text exists whose members decode in part.
C16_Witness ==
    /\ lastOp.op = "FromJSON"
    /\ err # "nil"
    /\ lastOp.found
    /\ Height(Tree) = 2
    /\ \E data \in Damaged(ToJSON(Tree)) :
           /\ Unmarshal(data).err = "UnmarshalTypeError"
           /\ DOMAIN Unmarshal(data).elements # {}

\* C17: the encoded form ToJSON gives of a tree, decoded by FromJSON into a
\* fresh tree of the same order, gives (whatever order range visits the
\* decoded map in) a tree with the same Keys() and the same Values().
C17_RoundTrip ==
    LET data == ToJSON(Tree)
    IN  \A ks \in Orders(DOMAIN Unmarshal(data).elements) :
            LET res == FromJSON(Fresh, data, ks)
            IN  /\ res.err = "nil"
                /\ ~Keys(res.T).panic /\ Keys(res.T).keys = Keys(Tree).keys
                /\ ~Values(res.T).panic /\ Values(res.T).values = Values(Tree).values

\* C17 witness: a tree of two levels holding keys of one and of two digits,
\* whose encoded form decodes into a fresh tree with a root.
C17_Witness ==
    /\ Height(Tree) = 2
    /\ \E i, j \in 1..Len(Keys(Tree).keys) :
           Len(utilsToString(Keys(Tree).keys[i])) < Len(utilsToString(Keys(Tree).keys[j]))
    /\ \E ks \in Orders(DOMAIN Unmarshal(ToJSON(Tree)).elements) :
           FromJSON(Fresh, ToJSON(Tree), ks).T.Root # Nil

\* C18: a FromJSON call that returns no error replaces the tree's content.
\* Afterwards Get finds exactly the keys of the decoded pairs, each with its
\* decoded value, Keys() lists those keys, no key held before the call and
\* absent from the text is found, and Size() is the number of decoded pairs.
C18_DecodeReplaces ==
    [][(lastOp'.op = "FromJSON" /\ err' = "nil") =>
         /\ Size(Tree') = Cardinality(DOMAIN model')
         /\ \A k \in JsonKeys :
                Get(Tree', k) = IF k \in DOMAIN model'
                                THEN [value |-> model'[k], found |-> TRUE]
                                ELSE [value |-> ZeroValue, found |-> FALSE]
         /\ {Keys(Tree').keys[i] : i \in 1..Len(Keys(Tree').keys)} = DOMAIN model'
         /\ \A i \in 1..Len(Iterator(Tree)) :
                Iterator(Tree)[i].Key \notin DOMAIN model'
                    => ~Get(Tree', Iterator(Tree)[i].Key).found]_vars

\* C18 witness: FromJSON has just accepted a text of some but not all of the
\* keys, given to a tree that held entries.
C18_Witness ==
    /\ lastOp.op = "FromJSON"
    /\ err = "nil"
    /\ lastOp.found
    /\ Size(Tree) > 0
    /\ Size(Tree) < JsonPairs

\* C19: the pairs of a map, put one by one into an empty tree of the order
\* at hand, give the same Keys(), the same Values() and the same Size()
\* in whichever two orders they are put. The pairs are those the tree holds.
C19_OrderIndependent ==
    LET O == Orders(DOMAIN model)
        built == [ks \in O |-> PutAll(Fresh, model, ks, 1)]
    IN  \A ks1 \in O : \A ks2 \in O :
            /\ ~Keys(built[ks1]).panic
            /\ Keys(built[ks1]).keys = Keys(built[ks2]).keys
            /\ ~Values(built[ks1]).panic
            /\ Values(built[ks1]).values = Values(built[ks2]).values
            /\ Size(built[ks1]) = Size(built[ks2])
            /\ Size(built[ks1]) = Cardinality(DOMAIN model)

\* C19 witness: the tree holds JsonPairs pairs, and two different orders of
\* putting them both split a node.
C19_Witness ==
    /\ Cardinality(DOMAIN model) = JsonPairs
    /\ \E ks1 \in Orders(DOMAIN model) : \E ks2 \in Orders(DOMAIN model) :
           /\ ks1 # ks2
           /\ Height(PutAll(Fresh, model, ks1, 1)) = 2
           /\ Height(PutAll(Fresh, model, ks2, 1)) = 2

\* C20: over a container of n elements, the calls of Next that follow one
\* another from before-first answer true n times, the i-th reading the
\* element of the i-th smallest key, and the call after them answers
\* false; the calls of Prev that follow one another from after-last answer
\* true n times, the i-th reading the element of the i-th largest key, and
\* the call after them answers false.
C20_CursorEnumerates ==
    LET n == Cardinality(DOMAIN model)
        asc == Ascending(DOMAIN model)
        Run(op, i, j) == \A k \in i..j : walk[k].op = op
        Reads(j, key) == /\ walk[j].ok
                         /\ walk[j].key = key
                         /\ walk[j].value = model[key]
    IN  \A i \in 1..Len(walk) : \A j \in i..Len(walk) :
            LET count == j - i + 1
            IN  /\ (walk[i].from = begin /\ Run("Next", i, j)) =>
                       /\ count <= n => Reads(j, asc[count])
                       /\ count = n + 1 => ~walk[j].ok
                /\ (walk[i].from = end /\ Run("Prev", i, j)) =>
                       /\ count <= n => Reads(j, asc[n + 1 - count])
                       /\ count = n + 1 => ~walk[j].ok

\* C20 witness: over two elements or more, the calls of Next from
\* before-first up to the one answering false, and then, from after-last
\* where that one left the cursor, the calls of Prev up to the one
\* answering false.
C20_Witness ==
    LET n == Cardinality(DOMAIN model)
    IN  /\ n >= 2
        /\ Len(walk) = 2 * (n + 1)
        /\ walk[1].from = begin
        /\ \A k \in 1..(n + 1) : walk[k].op = "Next"
        /\ walk[n + 2].from = end
        /\ \A k \in (n + 2)..(2 * (n + 1)) : walk[k].op = "Prev"
        /\ ~walk[2 * (n + 1)].ok
        /\ iterator.position = begin

\* C21: from any position of the cursor, Begin leaves it at before-first
\* and End at after-last, with no node; First answers true and leaves the
\* cursor on the element of the smallest key exactly when the container
\* holds an element, Last likewise on the element of the largest key, and
\* both answer false on an empty container.
C21_Resets ==
    \A i \in 1..Len(walk) :
        LET call == walk[i]
            n == Cardinality(DOMAIN model)
        IN  /\ call.op = "Begin" => call.to = begin /\ call.node = Nil
            /\ call.op = "End" => call.to = end /\ call.node = Nil
            /\ call.op = "First" =>
                   /\ call.ok <=> n > 0
                   /\ call.ok => /\ call.to = between
                                 /\ call.key = Ascending(DOMAIN model)[1]
                                 /\ call.value = model[call.key]
            /\ call.op = "Last" =>
                   /\ call.ok <=> n > 0
                   /\ call.ok => /\ call.to = between
                                 /\ call.key = Ascending(DOMAIN model)[n]
                                 /\ call.value = model[call.key]

\* C21 witness: First has just been called with the cursor on an element
\* that is not the smallest, and answered true.
C21_Witness ==
    /\ Len(walk) = 1
    /\ walk[1].op = "First"
    /\ walk[1].from = between
    /\ walk[1].ok
    /\ Cardinality(DOMAIN model) >= 3
    /\ iterator.node = Ascending(DOMAIN model)[1]

\* C22: Floor(key) returns the entry of the largest key <= key and
\* Ceiling(key) the entry of the smallest key >= key (the entry of key
\* itself when it is held); when there is no such key the call returns what
\* it returns on an empty map, and the key returned for an entry differs
\* from that, so the returned key tells found from not found.
C22_FloorCeiling ==
    lastOp.op \in {"Floor", "Ceiling"} =>
        LET held == DOMAIN treeMap.tree
            S == IF lastOp.op = "Floor" THEN {x \in held : x <= lastOp.key}
                 ELSE {x \in held : x >= lastOp.key}
            best == IF lastOp.op = "Floor"
                    THEN CHOOSE y \in S : \A z \in S : z <= y
                    ELSE CHOOSE y \in S : \A z \in S : y <= z
            notFound == IF lastOp.op = "Floor"
                        THEN treemapFloor(treemapNew, lastOp.key)
                        ELSE treemapCeiling(treemapNew, lastOp.key)
        IN  IF S = {}
            THEN /\ lastOp.foundKey = notFound.foundKey
                 /\ lastOp.foundValue = notFound.foundValue
            ELSE /\ lastOp.foundKey = best
                 /\ lastOp.foundValue = treeMap.tree[best]
                 /\ lastOp.foundKey # notFound.foundKey

\* C23: Node.Size() of any node of the tree is the number of entries held
\* in the subtree under that node, and Root.Size() of a non-empty tree is
\* Tree.Size().
C23_NodeSize ==
    /\ \A p \in InTree : NodeSize(nodes, p[1]) = CountEntries(nodes, p[1])
    /\ ~Empty(Tree) => NodeSize(nodes, Root) = Size(Tree)

\* C24: on a non-empty tree LeftKey() and LeftValue() are the smallest key
\* held and its value, the first elements of Keys() and Values(), and
\* RightKey() and RightValue() the largest key held and its value, the last
\* elements of Keys() and Values(); on an empty tree Left() and Right() are
\* no node and the four accessors return the zero value.
C24_LeftRight ==
    LET n == Size(Tree)
        held == DOMAIN model
    IN  IF Empty(Tree)
        THEN /\ TreeLeft(Tree) = Nil /\ TreeRight(Tree) = Nil
             /\ LeftKey(Tree) = ZeroValue /\ LeftValue(Tree) = ZeroValue
             /\ RightKey(Tree) = ZeroValue /\ RightValue(Tree) = ZeroValue
        ELSE /\ LeftKey(Tree) \in held /\ \A k \in held : LeftKey(Tree) <= k
             /\ LeftValue(Tree) = model[LeftKey(Tree)]
             /\ RightKey(Tree) \in held /\ \A k \in held : k <= RightKey(Tree)
             /\ RightValue(Tree) = model[RightKey(Tree)]
             /\ LeftKey(Tree) = Keys(Tree).keys[1]
             /\ LeftValue(Tree) = Values(Tree).values[1]
             /\ RightKey(Tree) = Keys(Tree).keys[n]
             /\ RightValue(Tree) = Values(Tree).values[n]

\* C24 witness: a tree of two levels whose right-most leaf holds two
\* entries, and whose smallest and largest keys have different values.
C24_Witness ==
    /\ Height(Tree) = 2
    /\ Len(nodes[TreeRight(Tree)].Entries) = 2
    /\ LeftValue(Tree) # RightValue(Tree)

\* C25: Get(key) of the linked hash map answers found exactly when the key
\* is in the map, whatever value is stored for it, the zero value included,
\* and then returns the stored value.
C25_LinkedGetFound ==
    lastOp.op = "Get" =>
        /\ lastOp.found <=> lastOp.key \in DOMAIN linkedMap.table
        /\ lastOp.found => lastOp.value = linkedMap.table[lastOp.key]

\* C26: Keys() of the linked hash map lists the keys in the map in the
\* order in which they came in. A Put of a key in the map changes its value
\* and leaves Keys() as it was, a Put of a key not in the map adds it at
\* the end, a Remove takes the key out and leaves the others in their
\* order (so a key removed and put again is last), and Clear leaves none;
\* after each call Keys() holds every key of the table exactly once and
\* Size() is the number of keys of the table.
C26_InsertionOrder ==
    [][LET call == lastOp'
           before == linkedhashmapKeys(linkedMap)
           after == linkedhashmapKeys(linkedMap')
           Without(l, key) == SelectSeq(l, LAMBDA x : x # key)
       IN  /\ call.op = "Put" =>
                 /\ linkedMap'.table[call.key] = call.value
                 /\ after = IF call.key \in DOMAIN linkedMap.table
                            THEN before
                            ELSE Append(before, call.key)
           /\ call.op = "Remove" => after = Without(before, call.key)
           /\ call.op = "Clear" => after = <<>>
           /\ call.op = "Get" => after = before
           /\ \A i, j \in 1..Len(after) : i # j => after[i] # after[j]
           /\ {after[i] : i \in 1..Len(after)} = DOMAIN linkedMap'.table
           /\ linkedhashmapSize(linkedMap') = Cardinality(DOMAIN linkedMap'.table)
      ]_vars

\* C26 witness: every key is in the map, the largest first and the smallest,
\* just put, last.
C26_Witness ==
    /\ lastOp.op = "Put"
    /\ lastOp.key = ZeroValue
    /\ Len(linkedhashmapKeys(linkedMap)) = Cardinality(LinkedKeys)
    /\ linkedhashmapKeys(linkedMap)[Cardinality(LinkedKeys)] = ZeroValue
    /\ linkedhashmapKeys(linkedMap)[1] = MaxLinkedKey

\* C27: in the hash and in the tree bidirectional map the forward and the
\* inverse map are inverses of each other after every call: Get(k) is
\* (v, true) exactly when GetKey(v) is (k, true), the two maps hold the same
\* number of entries, and after Put(k, v) Get(k) is v, GetKey(v) is k, the
\* value k had before is in neither map unless it is v, and the key v had
\* before is in neither map unless it is k.
C27_Inverses ==
    [][LET call == lastOp'
           Found(x) == [value |-> x, found |-> TRUE]
           hGet(k) == hashbidimapGet(hashBidi', k)
           hKey(v) == hashbidimapGetKey(hashBidi', v)
           tGet(k) == treebidimapGet(treeBidi', k)
           tKey(v) == treebidimapGetKey(treeBidi', v)
       IN  /\ \A k \in MapKeys, v \in MapVals :
                 /\ hGet(k) = Found(v) <=> hKey(v) = Found(k)
                 /\ tGet(k) = Found(v) <=> tKey(v) = Found(k)
           /\ \A k \in MapKeys : hGet(k).found <=> k \in DOMAIN hashBidi'.forwardMap.m
           /\ \A v \in MapVals : hKey(v).found <=> v \in DOMAIN hashBidi'.inverseMap.m
           /\ hashmapSize(hashBidi'.forwardMap) = hashmapSize(hashBidi'.inverseMap)
           /\ rbtSize(treeBidi'.forwardMap) = rbtSize(treeBidi'.inverseMap)
           /\ DOMAIN hashBidi'.forwardMap.m \subseteq MapKeys
           /\ DOMAIN hashBidi'.inverseMap.m \subseteq MapVals
           /\ DOMAIN treeBidi'.forwardMap \subseteq MapKeys
           /\ DOMAIN treeBidi'.inverseMap \subseteq MapVals
           /\ call.op = "Put" =>
                 LET hOld == hashbidimapGet(hashBidi, call.key)
                     hOldKey == hashbidimapGetKey(hashBidi, call.value)
                     tOld == treebidimapGet(treeBidi, call.key)
                     tOldKey == treebidimapGetKey(treeBidi, call.value)
                 IN  /\ hGet(call.key) = Found(call.value)
                     /\ hKey(call.value) = Found(call.key)
                     /\ tGet(call.key) = Found(call.value)
                     /\ tKey(call.value) = Found(call.key)
                     /\ (hOld.found /\ hOld.value # call.value) => ~hKey(hOld.value).found
                     /\ (hOldKey.found /\ hOldKey.value # call.key) => ~hGet(hOldKey.value).found
                     /\ (tOld.found /\ tOld.value # call.value) => ~tKey(tOld.value).found
                     /\ (tOldKey.found /\ tOldKey.value # call.key) => ~tGet(tOldKey.value).found
      ]_vars

\* C27 witness: Put(k, v) has just been called on maps in which k had
\* another value and v another key, so that both maps hold one pair fewer
\* than before, and two pairs or more.
C27_Witness ==
    /\ lastOp.op = "Put"
    /\ hashbidimapSize(hashBidi) = lastOp.before - 1
    /\ treebidimapSize(treeBidi) = lastOp.before - 1
    /\ hashbidimapSize(hashBidi) >= 2
    /\ hashbidimapGet(hashBidi, lastOp.key) = [value |-> lastOp.value, found |-> TRUE]
    /\ treebidimapGetKey(treeBidi, lastOp.value) = [value |-> lastOp.key, found |-> TRUE]

\* C28: in the tree bidirectional map Keys() is strictly ascending and
\* lists exactly the keys Get finds, and Values() is strictly ascending and
\* lists exactly the values GetKey finds, which are the values of those keys.
C28_BidiOrdered ==
    LET ks == treebidimapKeys(treeBidi)
        vs == treebidimapValues(treeBidi)
    IN  /\ \A i, j \in 1..Len(ks) : i < j => Comparator(ks[i], ks[j]) < 0
        /\ \A i, j \in 1..Len(vs) : i < j => Comparator(vs[i], vs[j]) < 0
        /\ {ks[i] : i \in 1..Len(ks)} = {k \in MapKeys : treebidimapGet(treeBidi, k).found}
        /\ {vs[i] : i \in 1..Len(vs)} = {v \in MapVals : treebidimapGetKey(treeBidi, v).found}
        /\ {vs[i] : i \in 1..Len(vs)} = {treebidimapGet(treeBidi, ks[i]).value : i \in 1..Len(ks)}
        /\ Len(vs) = Len(ks)

\* C28 witness: two pairs or more are held after a Remove, and the values
\* run against the keys: the smallest key has the largest value.
C28_Witness ==
    /\ lastOp.op = "Remove"
    /\ Len(treebidimapKeys(treeBidi)) >= 2
    /\ treebidimapGet(treeBidi, treebidimapKeys(treeBidi)[1]).value
           = treebidimapValues(treeBidi)[Len(treebidimapValues(treeBidi))]

\* every node from n down to the leaf where key would go holds maxEntries
\* entries, so that inserting key overflows each of them in turn
RECURSIVE PathFull(_, _, _)
PathFull(h, n, key) ==
    /\ Len(h[n].Entries) = maxEntries
    /\ isLeaf(h[n]) \/ PathFull(h, At(h[n].Children, search(h[n], key).index), key)

\* the root overflows on Put(key): the tree holds entries, key is not one of
\* its keys and every node on the way to key's leaf is full
RootOverflows(key) ==
    /\ Root # Nil
    /\ ~Get(Tree, key).found
    /\ PathFull(nodes, Root, key)

\* C29: the first Put into an empty tree raises Height() from 0 to 1 with a
\* root that is a leaf of one entry. Any other Put leaves Height() unchanged
\* or raises it by one, raises it exactly when the root overflows, and the
\* new root then holds one entry and two children. A Put of a held key and
\* a Remove never raise Height().
C29_HeightRaised ==
    [][LET call == lastOp'
           before == Height(Tree)
           after == Height(TreeNext)
           newRoot == nodes'[Root']
       IN  /\ call.op = "Put" =>
                 /\ after = before \/ after = before + 1
                 /\ Root = Nil =>
                        /\ before = 0 /\ after = 1
                        /\ Len(newRoot.Entries) = 1 /\ Len(newRoot.Children) = 0
                 /\ Root # Nil =>
                        /\ after = before + 1 <=> RootOverflows(call.key)
                        /\ after = before + 1 =>
                               /\ Len(newRoot.Entries) = 1
                               /\ Len(newRoot.Children) = 2
                               /\ newRoot.Parent = Nil
                 /\ call.found => after = before
           /\ call.op = "Remove" => after <= before
      ]_vars

\* C29 as stated: every Put that raises Height() is one on which the root
\* overflowed, and leaves a root of one entry and two children.
C29_AsStated ==
    [][LET call == lastOp'
           before == Height(Tree)
           after == Height(TreeNext)
           newRoot == nodes'[Root']
       IN  /\ call.op = "Put" =>
                 /\ after = before \/ after = before + 1
                 /\ after = before + 1 <=> RootOverflows(call.key)
                 /\ after = before + 1 =>
                        /\ Len(newRoot.Entries) = 1
                        /\ Len(newRoot.Children) = 2
                 /\ call.found => after = before
           /\ call.op = "Remove" => after <= before
      ]_vars

\* C29 witness: a Put has just split a root that was an internal node: the
\* height went from 2 to 3.
C29_Witness ==
    /\ lastOp.op = "Put"
    /\ ~lastOp.found
    /\ lastOp.height = 2
    /\ Height(Tree) = 3
    /\ Len(nodes[Root].Entries) = 1

\* the place of n among the children of its parent
ChildIndex(h, n) ==
    CHOOSE i \in 0..(Len(h[h[n].Parent].Children) - 1) :
        At(h[h[n].Parent].Children, i) = n

\* the leaf that loses an entry when key is removed: key's leaf, or for a
\* key of an internal node the leaf of its predecessor
RECURSIVE RightmostLeaf(_, _)
RightmostLeaf(h, n) ==
    IF Len(h[n].Children) = 0 THEN n
    ELSE RightmostLeaf(h, h[n].Children[Len(h[n].Children)])

DeletionLeaf(T, key) ==
    LET r == searchRecursively(T, T.Root, key)
    IN  IF isLeaf(T.nodes[r.node]) THEN r.node
        ELSE RightmostLeaf(T.nodes, At(T.nodes[r.node].Children, r.index))

\* losing an entry, n falls under minEntries and neither neighbour can lend,
\* so n is merged and its parent loses an entry, and so on up to the root,
\* which holds a single entry
RECURSIVE MergesToRoot(_, _)
MergesToRoot(T, n) ==
    LET h == T.nodes
        parent == h[n].Parent
        i == ChildIndex(h, n)
        Lean(j) == Len(h[At(h[parent].Children, j)].Entries) <= minEntries
    IN  /\ parent # Nil
        /\ Len(h[n].Entries) <= minEntries
        /\ i > 0 => Lean(i - 1)
        /\ i < Len(h[parent].Children) - 1 => Lean(i + 1)
        /\ IF parent = T.Root THEN Len(h[parent].Entries) = 1
           ELSE MergesToRoot(T, parent)

\* C30: a Remove lowers Height() by at most one. Removing the only entry of
\* the tree lowers it from 1 to 0. Otherwise a Remove lowers it exactly when
\* the key is held and the merges it causes reach the two children of a root
\* of one entry; the new root is then the merged node: a node without parent
\* holding the entries of both children and of the old root but the removed
\* one, and the children of both.
C30_HeightLowered ==
    [][LET call == lastOp'
           before == Height(Tree)
           after == Height(TreeNext)
           oldRoot == nodes[Root]
           newRoot == nodes'[Root']
           Below(c) == Len(nodes[At(oldRoot.Children, c)].Children)
           Held(c) == Len(nodes[At(oldRoot.Children, c)].Entries)
       IN  call.op = "Remove" =>
               /\ after = before \/ after = before - 1
               /\ ~call.found => after = before
               /\ (call.found /\ size = 1) => (before = 1 /\ after = 0 /\ Root' = Nil)
               /\ (call.found /\ size > 1) =>
                      /\ after = before - 1 <=> MergesToRoot(Tree, DeletionLeaf(Tree, call.key))
                      /\ after = before - 1 =>
                             /\ Len(oldRoot.Entries) = 1
                             /\ Len(oldRoot.Children) = 2
                             /\ newRoot.Parent = Nil
                             /\ Len(newRoot.Entries) = Held(0) + Held(1)
                             /\ Len(newRoot.Children) = IF before = 2 THEN 0
                                                        ELSE Below(0) + Below(1) - 1
                             /\ \A c \in 1..Len(newRoot.Children) :
                                    nodes'[newRoot.Children[c]].Parent = Root'
      ]_vars

\* C30 witness: a Remove has just lowered the height from 3 to 2: the merged
\* node that became the root is an internal node.
C30_Witness ==
    /\ lastOp.op = "Remove"
    /\ lastOp.found
    /\ lastOp.height = 3
    /\ Height(Tree) = 2
    /\ nodes[Root].Parent = Nil

\* the keys of a node, in the order of its entries
KeysOf(node) == [i \in 1..Len(node.Entries) |-> node.Entries[i].Key]

\* a sorted sequence of keys with one more key put at its place
InsertSorted(ks, key) ==
    SelectSeq(ks, LAMBDA x : x < key) \o <<key>> \o SelectSeq(ks, LAMBDA x : x > key)

\* the leaf under n where key belongs
RECURSIVE LeafFor(_, _, _)
LeafFor(h, n, key) ==
    IF isLeaf(h[n]) THEN n
    ELSE LeafFor(h, At(h[n].Children, search(h[n], key).index), key)

\* the nodes that overflow when key enters the full node n, from n upward:
\* for each its m keys at that moment, the number of its children and its
\* parent; the key in the middle of the m keys enters the parent in turn
RECURSIVE Overflowed(_, _, _)
Overflowed(h, n, key) ==
    IF n = Nil \/ Len(h[n].Entries) < m - 1 THEN <<>>
    ELSE LET full == InsertSorted(KeysOf(h[n]), key)
         IN  <<[keys |-> full, children |-> Len(h[n].Children), parent |-> h[n].Parent]>>
             \o Overflowed(h, h[n].Parent, full[(m - 1) \div 2 + 1])

\* where a key is held in a tree
HolderOf(T, key) == searchRecursively(T, T.Root, key)

\* C31: when a Put makes a node overflow to m keys, the key at index
\* floor((m-1)/2) goes to the parent at its sorted place (to a new root of one
\* entry when the node was the root), the keys before it make the left node
\* and the keys after it the right node, which holds m-1-floor((m-1)/2) keys
\* and never fewer than the left; of the m+1 children of an internal node the
\* first floor((m-1)/2)+1 go left and the others right; and the two nodes are
\* the children on either side of the promoted key (when the parent splits
\* in turn around that same key, they are the last child of its left half
\* and the first child of its right half).
C31_SplitHalves ==
    [][(lastOp'.op = "Put" /\ size' = size + 1 /\ Root # Nil) =>
         \A after \in {TreeNext} :
         \A k \in {CHOOSE x \in 1..KeysFor(m) :
                       Get(after, x).found /\ ~Get(Tree, x).found} :
         \A mid \in {(m - 1) \div 2} :
         \A os \in {Overflowed(nodes, LeafFor(nodes, Root, k), k)} :
         \A j \in 1..Len(os) :
         \A o \in {os[j]} :
         \A l \in {HolderOf(after, o.keys[1]).node} :
         \A r \in {HolderOf(after, o.keys[m]).node} :
         \A p \in {HolderOf(after, o.keys[mid + 1])} :
             LET promoted == o.keys[mid + 1]
                 h == after.nodes
                 again == j < Len(os) /\ os[j + 1].keys[mid + 1] = promoted
             IN  /\ Len(o.keys) = m
                 /\ KeysOf(h[l]) = SubSeq(o.keys, 1, mid)
                 /\ KeysOf(h[r]) = SubSeq(o.keys, mid + 2, m)
                 /\ Len(h[r].Entries) = m - 1 - mid
                 /\ Len(h[r].Entries) >= Len(h[l].Entries)
                 /\ Len(h[l].Children) = IF o.children = 0 THEN 0 ELSE mid + 1
                 /\ Len(h[r].Children) =
                        IF o.children = 0 THEN 0 ELSE o.children + 1 - (mid + 1)
                 /\ \A c \in 1..Len(h[l].Children) : h[h[l].Children[c]].Parent = l
                 /\ \A c \in 1..Len(h[r].Children) : h[h[r].Children[c]].Parent = r
                 /\ p.found /\ ~isLeaf(h[p.node])
                 /\ ~again =>
                        /\ h[l].Parent = p.node
                        /\ h[r].Parent = p.node
                        /\ At(h[p.node].Children, p.index) = l
                        /\ At(h[p.node].Children, p.index + 1) = r
                 /\ again =>
                        LET pl == h[HolderOf(after, os[j + 1].keys[1]).node]
                            pr == h[HolderOf(after, os[j + 1].keys[m]).node]
                        IN  /\ pl.Children[Len(pl.Children)] = l
                            /\ pr.Children[1] = r
                 /\ (o.parent # Nil /\ Len(nodes[o.parent].Entries) < m - 1) =>
                        KeysOf(h[p.node]) =
                            InsertSorted(KeysOf(nodes[o.parent]), promoted)
                 /\ o.parent = Nil =>
                        /\ p.node = after.Root
                        /\ KeysOf(h[after.Root]) = <<promoted>>
      ]_vars

\* C31 witness: a Put has just split a leaf and, with the key promoted from
\* it, the internal node above it, whose middle key went into the root: a
\* tree of height 3 and order 3 with two entries in the root and one in
\* every other node cannot have come from a Put otherwise.
C31_Witness ==
    /\ lastOp.op = "Put"
    /\ m = MinOrder
    /\ Height(Tree) = 3
    /\ Len(nodes[Root].Entries) = 2
    /\ \A x \in InTree : x[1] # Root => Len(nodes[x[1]].Entries) = 1

\* the neighbours of n among the children of its parent (Nil where none)
LeftOf(h, n) ==
    IF ChildIndex(h, n) > 0
    THEN At(h[h[n].Parent].Children, ChildIndex(h, n) - 1) ELSE Nil
RightOf(h, n) ==
    IF ChildIndex(h, n) < Len(h[h[n].Parent].Children) - 1
    THEN At(h[h[n].Parent].Children, ChildIndex(h, n) + 1) ELSE Nil

\* how rebalancing ends when n loses an entry, merges merges having been
\* made below n: n keeps enough entries ("none"), n is the root ("root"), or
\* n borrows from its left or right neighbour; otherwise n is merged and its
\* parent loses an entry
RECURSIVE RebalanceEnd(_, _, _)
RebalanceEnd(h, n, merges) ==
    IF h[n].Parent = Nil THEN [kind |-> "root", merges |-> merges, node |-> n]
    ELSE IF Len(h[n].Entries) > minChildren - 1
    THEN [kind |-> "none", merges |-> merges, node |-> n]
    ELSE IF LeftOf(h, n) # Nil /\ Len(h[LeftOf(h, n)].Entries) > minChildren - 1
    THEN [kind |-> "left", merges |-> merges, node |-> n]
    ELSE IF RightOf(h, n) # Nil /\ Len(h[RightOf(h, n)].Entries) > minChildren - 1
    THEN [kind |-> "right", merges |-> merges, node |-> n]
    ELSE RebalanceEnd(h, h[n].Parent, merges + 1)

\* the strict ancestors of n
RECURSIVE Ancestors(_, _)
Ancestors(h, n) ==
    IF h[n].Parent = Nil THEN {} ELSE {h[n].Parent} \cup Ancestors(h, h[n].Parent)

\* a sequence without the element x
Without(ks, x) == SelectSeq(ks, LAMBDA y : y # x)

\* the key removed by the step: the one that leaves model, the map of the
\* entries put and not removed
RemovedKey == CHOOSE x \in DOMAIN model : x \notin DOMAIN model'

\* C32: when a Remove makes a non-root node underflow (at the leaf, or above
\* it after merges below) and a neighbouring sibling holds more than
\* ceil(m/2)-1 entries, one rotation ends the rebalancing: the lender's
\* nearest entry replaces the separator in the parent, the separator enters
\* the underflowed node, the parent keeps its numbers of entries and of
\* children, no node disappears but those merged below, the height and
\* every node above the parent stay as they were; the left sibling lends
\* whenever it can, and the right sibling is then unchanged.
C32_BorrowRotates ==
    [][(lastOp'.op = "Remove" /\ size' = size - 1 /\ size > 1) =>
         \A after \in {TreeNext} :
         \A k \in {RemovedKey} :
         \A leaf \in {DeletionLeaf(Tree, k)} :
         \A e \in {RebalanceEnd(nodes, leaf, 0)} :
             e.kind \in {"left", "right"} =>
                 \A pred \in {nodes[leaf].Entries[Len(nodes[leaf].Entries)].Key} :
                 \A gone \in {IF isLeaf(nodes[HolderOf(Tree, k).node]) THEN k ELSE pred} :
                 \A i \in {ChildIndex(nodes, e.node)} :
                 \A from \in {IF e.kind = "left" THEN LeftOf(nodes, e.node)
                              ELSE RightOf(nodes, e.node)} :
                 \A lent \in {IF e.kind = "left"
                              THEN nodes[from].Entries[Len(nodes[from].Entries)].Key
                              ELSE nodes[from].Entries[1].Key} :
                 \A P \in {HolderOf(after, lent)} :
                     LET h == after.nodes
                         Adj(x) == IF x = k THEN pred ELSE x
                         parent == nodes[nodes[e.node].Parent]
                         at == IF e.kind = "left" THEN i - 1 ELSE i
                         sep == Adj(At(parent.Entries, at).Key)
                         N == At(h[P.node].Children, i)
                         L == At(h[P.node].Children, IF e.kind = "left" THEN i - 1 ELSE i + 1)
                         other == RightOf(nodes, e.node)
                     IN  /\ Height(after) = Height(Tree)
                         /\ Cardinality(Levels(h, after.Root, 1))
                                = Cardinality(InTree) - e.merges
                         /\ P.found /\ P.index = at
                         /\ Len(h[P.node].Entries) = Len(parent.Entries)
                         /\ Len(h[P.node].Children) = Len(parent.Children)
                         /\ KeysOf(h[P.node]) =
                                [x \in 1..Len(parent.Entries) |->
                                    IF x = at + 1 THEN lent
                                    ELSE Adj(parent.Entries[x].Key)]
                         /\ KeysOf(h[L]) = Without(KeysOf(nodes[from]), lent)
                         /\ Len(h[L].Entries) >= minChildren - 1
                         /\ Len(h[N].Entries) = minChildren - 1
                         /\ e.kind = "left" => h[N].Entries[1].Key = sep
                         /\ e.kind = "right" => h[N].Entries[Len(h[N].Entries)].Key = sep
                         /\ e.merges = 0 =>
                                KeysOf(h[N]) =
                                    IF e.kind = "left"
                                    THEN <<sep>> \o Without(KeysOf(nodes[leaf]), gone)
                                    ELSE Without(KeysOf(nodes[leaf]), gone) \o <<sep>>
                         /\ isLeaf(h[N]) = isLeaf(h[L])
                         /\ ~isLeaf(h[N]) =>
                                /\ Len(h[N].Children) = Len(h[N].Entries) + 1
                                /\ Len(h[L].Children) = Len(nodes[from].Children) - 1
                         /\ (e.kind = "left" /\ other # Nil
                             /\ Len(nodes[other].Entries) > minChildren - 1) =>
                                LET R == At(h[P.node].Children, i + 1)
                                IN  /\ KeysOf(h[R]) = KeysOf(nodes[other])
                                    /\ Len(h[R].Children) = Len(nodes[other].Children)
                         /\ \A a \in Ancestors(nodes, nodes[e.node].Parent) :
                                \A A \in {HolderOf(after, Adj(nodes[a].Entries[1].Key)).node} :
                                    /\ KeysOf(h[A]) = [x \in 1..Len(nodes[a].Entries) |->
                                                          Adj(nodes[a].Entries[x].Key)]
                                    /\ Len(h[A].Children) = Len(nodes[a].Children)
      ]_vars

\* C32 witness: a tree of height 3 in which removing one key makes a leaf
\* underflow between two siblings that can both lend, and removing another
\* merges two leaves and makes their parent underflow beside a sibling that
\* can lend; SpecDeep removes each held key from every state, so both
\* rotations are steps from this one.
C32_Witness ==
    /\ Height(Tree) = 3
    /\ \E k \in DOMAIN model :
           LET e == RebalanceEnd(nodes, DeletionLeaf(Tree, k), 0)
           IN  /\ e.kind = "left"
               /\ e.merges = 0
               /\ RightOf(nodes, e.node) # Nil
               /\ Len(nodes[RightOf(nodes, e.node)].Entries) > minChildren - 1
    /\ \E k \in DOMAIN model :
           LET e == RebalanceEnd(nodes, DeletionLeaf(Tree, k), 0)
           IN  e.kind \in {"left", "right"} /\ e.merges = 1

\* the keys of node n as rebalancing finds them when key k is removed: in
\* an internal node k has been replaced by its predecessor pred
AdjKeys(h, n, k, pred) ==
    [x \in 1..Len(h[n].Entries) |->
        IF h[n].Entries[x].Key = k THEN pred ELSE h[n].Entries[x].Key]

\* the merges made when n loses the key lost, from n upward: n holds the
\* minimum and no neighbour can lend, so n takes the separator and the
\* entries of its right neighbour, or of its left one when it has no right
\* one, and the parent loses the separator in turn. For each merge: the keys
\* and the number of children of the merged node, the separator, the parent.
RECURSIVE MergeSteps(_, _, _, _, _)
MergeSteps(h, n, lost, k, pred) ==
    IF \/ h[n].Parent = Nil
       \/ Len(h[n].Entries) > minChildren - 1
       \/ LeftOf(h, n) # Nil /\ Len(h[LeftOf(h, n)].Entries) > minChildren - 1
       \/ RightOf(h, n) # Nil /\ Len(h[RightOf(h, n)].Entries) > minChildren - 1
    THEN <<>>
    ELSE LET parent == h[n].Parent
             i == ChildIndex(h, n)
             own == Without(AdjKeys(h, n, k, pred), lost)
             below == IF isLeaf(h[n]) THEN 0 ELSE Len(h[n].Children) - 1
             withRight == RightOf(h, n) # Nil
             sib == IF withRight THEN RightOf(h, n) ELSE LeftOf(h, n)
             sep == AdjKeys(h, parent, k, pred)[IF withRight THEN i + 1 ELSE i]
         IN  <<[keys |-> IF withRight THEN own \o <<sep>> \o KeysOf(h[sib])
                         ELSE KeysOf(h[sib]) \o <<sep>> \o own,
                children |-> IF isLeaf(h[n]) THEN 0 ELSE below + Len(h[sib].Children),
                sep |-> sep, parent |-> parent, withRight |-> withRight]>>
             \o MergeSteps(h, parent, sep, k, pred)

\* C33: an underflowed non-root node with no sibling able to lend is merged
\* with its right sibling if it has one, else with its left one: the merged
\* node holds its own entries, the separator and the sibling's entries in
\* key order, at most m-1 of them, and the children of both; the parent
\* loses exactly the separator and one child; and rebalancing goes on at the
\* parent, so that the merges made are exactly those the tree before the
\* call requires, level after level.
C33_Merges ==
    [][(lastOp'.op = "Remove" /\ size' = size - 1 /\ size > 1) =>
         \A after \in {TreeNext} :
         \A k \in {RemovedKey} :
         \A leaf \in {DeletionLeaf(Tree, k)} :
         \A pred \in {IF isLeaf(nodes[HolderOf(Tree, k).node]) THEN k
                      ELSE nodes[leaf].Entries[Len(nodes[leaf].Entries)].Key} :
         \A ms \in {MergeSteps(nodes, leaf, pred, k, pred)} :
         \A e \in {RebalanceEnd(nodes, leaf, 0)} :
             LET h == after.nodes
                 collapsed == /\ Len(ms) > 0
                              /\ e.kind = "root"
                              /\ Len(nodes[Root].Entries) = 1
             IN  /\ Len(ms) = e.merges
                 /\ Cardinality(Levels(h, after.Root, 1)) =
                        Cardinality(InTree) - Len(ms) - (IF collapsed THEN 1 ELSE 0)
                 /\ \A j \in 1..Len(ms) :
                        \A M \in {HolderOf(after, ms[j].keys[1]).node} :
                            /\ KeysOf(h[M]) = ms[j].keys
                            /\ Len(h[M].Entries) <= m - 1
                            /\ Len(h[M].Children) = ms[j].children
                            /\ \A c \in 1..Len(h[M].Children) :
                                   h[h[M].Children[c]].Parent = M
                            /\ ~HolderOf(after, ms[j].sep).found
                                   \/ HolderOf(after, ms[j].sep).node = M
                 /\ (Len(ms) > 0 /\ e.kind \in {"none", "root"} /\ ~collapsed) =>
                        \A last \in {ms[Len(ms)]} :
                        \A P \in {h[HolderOf(after, ms[Len(ms)].keys[1]).node].Parent} :
                            /\ P # Nil
                            /\ KeysOf(h[P]) =
                                   Without(AdjKeys(nodes, last.parent, k, pred), last.sep)
                            /\ Len(h[P].Entries) = Len(nodes[last.parent].Entries) - 1
                            /\ Len(h[P].Children) = Len(nodes[last.parent].Children) - 1
                 /\ collapsed =>
                        /\ after.Root = HolderOf(after, ms[Len(ms)].keys[1]).node
                        /\ Height(after) = Height(Tree) - 1
      ]_vars

\* C33 witness: a tree of height 3 in which removing some key merges a leaf
\* that has no right sibling with its left sibling and then merges their
\* parent too, and removing another merges a leaf with its right sibling;
\* SpecDeep removes each held key from every state, so both are steps from
\* this one.
C33_Witness ==
    /\ Height(Tree) = 3
    /\ \E k \in DOMAIN model :
           LET leaf == DeletionLeaf(Tree, k)
               ms == MergeSteps(nodes, leaf, k, k, k)
           IN  /\ isLeaf(nodes[HolderOf(Tree, k).node])
               /\ Len(ms) = 2
               /\ ~ms[1].withRight
    /\ \E k \in DOMAIN model :
           LET leaf == DeletionLeaf(Tree, k)
               ms == MergeSteps(nodes, leaf, k, k, k)
           IN  /\ isLeaf(nodes[HolderOf(Tree, k).node])
               /\ Len(ms) >= 1
               /\ ms[1].withRight

\* the sibling lookups of the rebalancing that starts at n with deletedKey
\* all find the neighbours of the node among its parent's children, with
\* their indexes (none for a node without parent); followed level by level
\* as rebalance goes up after each merge
RECURSIVE LookupsTrue(_, _, _)
LookupsTrue(T, n, deletedKey) ==
    IF n = Nil \/ Len(T.nodes[n].Entries) >= minEntries THEN TRUE
    ELSE
    LET h == T.nodes
        ls == leftSibling(h, n, deletedKey)
        rs == rightSibling(h, n, deletedKey)
    IN  /\ h[n].Parent = Nil => ls.node = Nil /\ rs.node = Nil
        /\ h[n].Parent # Nil =>
               /\ ls.node = LeftOf(h, n)
               /\ rs.node = RightOf(h, n)
               /\ ls.node # Nil => ls.index = ChildIndex(h, n) - 1
               /\ rs.node # Nil => rs.index = ChildIndex(h, n) + 1
        /\ \/ ls.node # Nil /\ Len(h[ls.node].Entries) > minEntries
           \/ rs.node # Nil /\ Len(h[rs.node].Entries) > minEntries
           \/ LET mg == IF rs.node # Nil THEN mergeRight(h, n, rs)
                        ELSE IF ls.node # Nil THEN mergeLeft(h, n, ls)
                        ELSE [nodes |-> h, deletedKey |-> deletedKey]
              IN  \/ mg.nodes[n].Parent = T.Root /\ Len(mg.nodes[T.Root].Entries) = 0
                  \/ LookupsTrue([T EXCEPT !.nodes = mg.nodes],
                                 mg.nodes[n].Parent, mg.deletedKey)

\* the entries a tree holds, node by node
EntriesOf(T) ==
    IF T.Root = Nil THEN {}
    ELSE UNION {{T.nodes[x[1]].Entries[i] : i \in 1..Len(T.nodes[x[1]].Entries)} :
                   x \in Levels(T.nodes, T.Root, 1)}

\* C34: Remove(k) of a key held in an internal node puts in its place the
\* entry of the largest key below k, which is the last entry of the
\* rightmost leaf under the child left of k, and takes it out of that leaf;
\* when the leaf keeps enough entries nothing else changes, and otherwise
\* the rebalancing made is the one that starts at that leaf. After any
\* Remove of a held key the keys are the former keys but k, each with its
\* value, and every sibling lookup of the rebalancing finds the neighbours
\* of the underflowed node among the children of its parent.
C34_InternalRemove ==
    [][(lastOp'.op = "Remove" /\ size' = size - 1 /\ size > 1) =>
         \A after \in {TreeNext} :
         \A k \in {RemovedKey} :
         \A at \in {HolderOf(Tree, k)} :
         \A leaf \in {DeletionLeaf(Tree, k)} :
         \A pred \in {nodes[leaf].Entries[Len(nodes[leaf].Entries)]} :
         \A internal \in {~isLeaf(nodes[at.node])} :
         \A emptied \in {IF internal
                         THEN [nodes EXCEPT
                                  ![at.node].Entries = ReplaceAt(@, at.index, pred),
                                  ![leaf].Entries = SubSeq(@, 1, Len(@) - 1)]
                         ELSE [nodes EXCEPT ![leaf].Entries = RemoveAt(@, at.index)]} :
         \A e \in {RebalanceEnd(nodes, leaf, 0)} :
             LET collapsed == e.merges > 0 /\ e.kind = "root"
                              /\ Len(nodes[Root].Entries) = 1
             IN  /\ ~Get(after, k).found
                 /\ EntriesOf(after) = EntriesOf(Tree) \ {nodes[at.node].Entries[at.index + 1]}
                 /\ \A x \in DOMAIN model' : Get(after, x) = Get(Tree, x)
                 /\ internal =>
                        /\ pred.Key = Largest({x \in KeyUniverse :
                                                   x < k /\ Get(Tree, x).found})
                        /\ leaf \in {x[1] : x \in Levels(nodes,
                               At(nodes[at.node].Children, at.index), 1)}
                        /\ Len(nodes[leaf].Entries) > minChildren - 1 =>
                               /\ after.nodes = emptied
                               /\ after.Root = Root
                        /\ Cardinality(Levels(after.nodes, after.Root, 1)) =
                               Cardinality(InTree) - e.merges
                                   - (IF collapsed THEN 1 ELSE 0)
                 /\ LookupsTrue([Tree EXCEPT !.nodes = emptied], leaf,
                                IF internal THEN pred.Key ELSE k)
      ]_vars

\* C34 witness: a tree of height 3 in which removing a key of the root makes
\* its predecessor's leaf underflow and be merged, and the leaf's parent be
\* merged in turn; SpecDeep removes each held key from every state, so that
\* Remove is a step from this one.
C34_Witness ==
    /\ Height(Tree) = 3
    /\ \E k \in DOMAIN model :
           /\ HolderOf(Tree, k).node = Root
           /\ RebalanceEnd(nodes, DeletionLeaf(Tree, k), 0).merges = 2

\* C35: after every completed Put or Remove every node other than the root,
\* leaf or internal, holds at least ceil(m/2)-1 and at most m-1 entries, and
\* the root, when there is one, at least 1 and at most m-1.
C35_EntryBounds ==
    \A x \in InTree :
        /\ Len(nodes[x[1]].Entries) <= m - 1
        /\ x[1] # Root => Len(nodes[x[1]].Entries) >= CeilHalf(m) - 1
        /\ x[1] = Root => Len(nodes[x[1]].Entries) >= 1

\* C35 witness: after a Remove, a tree of height 3 holding at once a leaf
\* with the fewest entries allowed, a leaf with the most, and an internal
\* node other than the root with the most.
C35_Witness ==
    /\ lastOp.op = "Remove" /\ lastOp.found
    /\ Height(Tree) = 3
    /\ \E x \in InTree : x[2] = 3 /\ Len(nodes[x[1]].Entries) = CeilHalf(m) - 1
    /\ \E x \in InTree : x[2] = 3 /\ Len(nodes[x[1]].Entries) = m - 1
    /\ \E x \in InTree : x[2] = 2 /\ Len(nodes[x[1]].Entries) = m - 1

\* the nodes from n up to the root, n first
RECURSIVE PathUp(_, _)
PathUp(h, n) == IF n = Nil THEN <<>> ELSE <<n>> \o PathUp(h, h[n].Parent)

\* the key added by the step: the one that enters model
AddedKey == CHOOSE x \in DOMAIN model' : x \notin DOMAIN model

\* a node of T2 is as it was before the call; with strict, in every field;
\* otherwise its parent reference may differ when its parent is one of moved
SameNode(T2, x, moved, strict) ==
    /\ T2.nodes[x].Entries = nodes[x].Entries
    /\ T2.nodes[x].Children = nodes[x].Children
    /\ IF strict \/ nodes[x].Parent \notin moved
       THEN T2.nodes[x].Parent = nodes[x].Parent
       ELSE \E c \in 1..Len(T2.nodes[T2.nodes[x].Parent].Children) :
                T2.nodes[T2.nodes[x].Parent].Children[c] = x

\* the frame of an inserting Put of key k: the nodes split are the lowest
\* nodes of the path from k's leaf to the root, as many as overflow, each
\* once (one node more per split, two for the root); the path above the
\* parent that receives the last promoted key is untouched, and so is every
\* node off the path
PutFrame(k, strict) ==
    \A T2 \in {Put(Tree, k, k)} :
    \A path \in {PathUp(nodes, LeafFor(nodes, Root, k))} :
    \A splits \in {Len(Overflowed(nodes, LeafFor(nodes, Root, k), k))} :
    \A halved \in {{path[j] : j \in 1..splits}} :
    \A on \in {{path[j] : j \in 1..Len(path)}} :
            /\ Collect(T2) = TreeNext
            /\ splits <= Height(Tree)
            /\ Height(T2) = Height(Tree) + (IF splits = Len(path) THEN 1 ELSE 0)
            /\ Cardinality(Levels(T2.nodes, T2.Root, 1)) =
                   Cardinality(InTree) + splits + (IF splits = Len(path) THEN 1 ELSE 0)
            /\ \A j \in (splits + 2)..Len(path) : T2.nodes[path[j]] = nodes[path[j]]
            /\ \A x \in InTree : x[1] \notin on => SameNode(T2, x[1], halved, strict)

\* the frame of a Remove of the held key k: the merges go up the path from
\* the leaf that loses an entry, one per level, and end at the first node
\* that keeps enough entries, at the first borrow, or at the root; the path
\* above that point is untouched but for the node that held k, and so is
\* every node off the path other than the siblings merged and the lender
RemoveFrame(k, strict) ==
    \A T2 \in {Remove(Tree, k)} :
    \A leaf \in {DeletionLeaf(Tree, k)} :
    \A path \in {PathUp(nodes, DeletionLeaf(Tree, k))} :
    \A e \in {RebalanceEnd(nodes, leaf, 0)} :
    \A used \in {{IF RightOf(nodes, path[j]) # Nil THEN RightOf(nodes, path[j])
                   ELSE LeftOf(nodes, path[j]) : j \in 1..e.merges}
                  \cup (IF e.kind = "left" THEN {LeftOf(nodes, e.node)}
                        ELSE IF e.kind = "right" THEN {RightOf(nodes, e.node)}
                        ELSE {})} :
    \A on \in {{path[j] : j \in 1..Len(path)}} :
    \A holder \in {HolderOf(Tree, k).node} :
        LET first == IF e.kind \in {"left", "right"} THEN e.merges + 3
                     ELSE e.merges + 2
            lower == Height(Tree) - Height(T2)
        IN  /\ Collect(T2) = TreeNext
            /\ e.merges <= Height(Tree) - 1
            /\ lower \in {0, 1}
            /\ lower = 1 => e.merges = Height(Tree) - 1
            /\ Cardinality(Levels(T2.nodes, T2.Root, 1)) =
                   Cardinality(InTree) - e.merges - lower
            /\ e.node = path[e.merges + 1]
            /\ \A j \in first..Len(path) :
                   path[j] # holder => T2.nodes[path[j]] = nodes[path[j]]
            /\ \A x \in InTree :
                   x[1] \notin (on \cup used) => SameNode(T2, x[1], used, strict)

\* C36: every Put and every Remove ends, after at most one split per level
\* of the path from the leaf to the root, or one merge per level below the
\* root and at most one borrow. Nodes off that path, other than the siblings
\* merged or lending, keep their entries and their children; they keep their
\* parent reference too unless their parent was split, merged away or lent
\* them.
C36_Propagation ==
    [][/\ (lastOp'.op = "Put" /\ size' = size + 1 /\ Root # Nil) =>
              \A k \in {AddedKey} : PutFrame(k, FALSE)
       /\ (lastOp'.op = "Remove" /\ size' = size - 1 /\ size > 1) =>
              \A k \in {RemovedKey} : RemoveFrame(k, FALSE)
      ]_vars

\* C36 as stated: nodes off the path and other than the siblings used are
\* left as they were, parent reference included.
C36_AsStated ==
    [][/\ (lastOp'.op = "Put" /\ size' = size + 1 /\ Root # Nil) =>
              \A k \in {AddedKey} : PutFrame(k, TRUE)
       /\ (lastOp'.op = "Remove" /\ size' = size - 1 /\ size > 1) =>
              \A k \in {RemovedKey} : RemoveFrame(k, TRUE)
      ]_vars

\* C36 witness: a tree of height 3 in which a Put of some key splits its
\* leaf and the internal node above it, and a Remove of some key merges two
\* leaves and makes their parent borrow from its sibling; SpecDeep makes
\* every inserting Put and every deleting Remove from every state.
C36_Witness ==
    /\ Height(Tree) = 3
    /\ \E k \in 1..KeysFor(m) :
           /\ ~Get(Tree, k).found
           /\ Len(Overflowed(nodes, LeafFor(nodes, Root, k), k)) = 2
    /\ \E k \in DOMAIN model :
           LET e == RebalanceEnd(nodes, DeletionLeaf(Tree, k), 0)
           IN  e.merges = 1 /\ e.kind \in {"left", "right"}

\* ---- the cursor's algebra ----
\* the cursor as the k-th call of walk found it: its position, and the node
\* the call before left it on (none before the first call, which follows
\* the making of the cursor or is a Begin, End, First or Last)
Before(k) == [position |-> walk[k].from,
              node |-> IF k = 1 THEN Nil ELSE walk[k - 1].node]

\* the cursor as the k-th call of walk left it
After(k) == [position |-> walk[k].to, node |-> walk[k].node]

C38_EmptySafe ==
    /\ Size(Tree) >= 0
    /\ (Root # Nil /\ isLeaf(nodes[Root])) => Height(Tree) = 1
    /\ Empty(Tree) <=> DOMAIN model = {}
    /\ DOMAIN model = {} =>
           /\ Root = Nil
           /\ Size(Tree) = 0
           /\ Height(Tree) = 0
           /\ Keys(Tree) = [panic |-> FALSE, keys |-> <<>>]
           /\ Values(Tree) = [panic |-> FALSE, values |-> <<>>]
           /\ TreeLeft(Tree) = Nil /\ TreeRight(Tree) = Nil
           /\ LeftKey(Tree) = ZeroValue /\ LeftValue(Tree) = ZeroValue
           /\ RightKey(Tree) = ZeroValue /\ RightValue(Tree) = ZeroValue
           /\ Clear(Tree) = Tree
           /\ \A k \in 0..(MaxKey + 1) :
                  /\ Get(Tree, k) = [value |-> ZeroValue, found |-> FALSE]
                  /\ GetNode(Tree, k) = Nil
                  /\ Remove(Tree, k) = Tree
                  /\ Size(Remove(Tree, k)) = 0

\* C38 witness: Remove has just been called on a tree that holds nothing,
\* found no key and left the tree without root, with size 0 and height 0.
C38_Witness ==
    /\ lastOp.op = "Remove"
    /\ ~lastOp.found
    /\ DOMAIN model = {}
    /\ Root = Nil
    /\ size = 0
    /\ Height(Tree) = 0

====
